---- MODULE Spec2Model ----
(***************************************************************************)
(* A model of the containr dependency-injection container                  *)
(* (Container.ts): ConfiguredDependency / ArrayDependency records,         *)
(* ServiceCollection, ServiceContainer with parent delegation, forking     *)
(* and disposal.                                                           *)
(*                                                                         *)
(* JavaScript objects are modelled as a heap: `deps` holds the dependency  *)
(* records, `arrays` the `values` arrays of ArrayDependency, `maps` the    *)
(* Record<string, IConfiguredDependency> hashes.  A reference is an index  *)
(* into the heap, so that two holders of the same object see each other's  *)
(* writes, as they do in the program.                                      *)
(***************************************************************************)
EXTENDS Integers, Sequences, FiniteSets, TLC

VARIABLES
  deps,      \* heap of ConfiguredDependency / ArrayDependency objects
  arrays,    \* heap of the `values` arrays of ArrayDependency objects
  maps,      \* heap of key -> record hashes (0 = key absent)
  colls,     \* ServiceCollection.values : collection -> map reference
  conts,     \* heap of ServiceContainer objects: [values, parent]
  calls,     \* number of invocations of every user function / constructor
  hooks,     \* number of dispose() calls received by every created object
  seen,      \* history: what get(K) returned on a container so far
  added,     \* history: the add / addDependency calls made under every key
  obs,       \* history: the operation performed by the last step
  activated, \* the objects whose activate() was invoked, in invocation order
  contexts,  \* the InteractionContext objects, in creation order
  stacks     \* heap of ServiceContainerStack objects: their `storage` arrays

vars == <<deps, arrays, maps, colls, conts, calls, hooks, seen, added, obs,
          activated, contexts, stacks>>

(***************************************************************************)
(* Bounds of the model.                                                    *)
(***************************************************************************)
MaxMaps  == 4   \* hashes on the heap (import and include make a new one)
MaxConts == 2   \* containers on the heap
MaxCalls == 2   \* invocations of user functions and constructors
MaxDepth == 6   \* nesting depth of a resolution (call-stack budget)
MaxEntries == 3 \* entries of the multi-binding records added in SpecAdd

Keys        == {"a", "b"}
\* BootstrappingServices.Activators
Activators  == "activators"
\* The keys of the hashes: the keys the model registers and resolves by
\* name, and the reserved key of createContainer.
AllKeys     == Keys \cup {Activators}
Collections == {"X", "Y"}

\* User functions passed to register / addDependency: each call returns a
\* new object; the objects made by F1 expose dispose(), those of F2 do not.
UserFns     == {"F1", "F2"}
\* User functions that throw an error on every call.
ThrowingFns == {"F3"}
\* User functions that return undefined on every call.
VoidFns     == {"F4"}
\* User functions that call provider.get("b") and return a new object made
\* from the result: (provider) => new Thing(provider.get("b")).
CallingFns  == {"F5"}
\* User values that are not functions.
UserValues  == {"v1", "v2"}
\* User values that are not functions and are falsy: 0, '', false, null.
FalsyValues == {"zero"}
\* Classes handed to use / add; their constructors carry no @inject
\* metadata.
Classes     == {"PolicyA", "PolicyB"}
\* Classes whose constructor (a, b) carries @inject("a") on parameter 0 and
\* @inject("b") on parameter 1.  The markers of WiredDesc were recorded in
\* descending parameter order, as the decorators emitted by the TypeScript
\* compiler run; those of WiredAsc in ascending order, as inject("a")(C,
\* undefined, 0) followed by inject("b")(C, undefined, 1) records them.
WiredClasses == {"WiredDesc", "WiredAsc"}
\* A class whose constructor (x, b) carries @inject("b") on parameter 1
\* and no marker on parameter 0.
GapClasses == {"WiredGap"}
\* Classes implementing IActivator; their constructors take no argument.
ActivatorClasses == {"ActivatorA", "ActivatorB"}
Disposables == {"F1"}

\* An argument of type T | ValueFactoryDelegate<T>.
FnInput(f)    == [fn |-> TRUE, id |-> f]
ValueInput(v) == [fn |-> FALSE, id |-> v]
Inputs == {FnInput(f) : f \in UserFns} \cup {ValueInput(v) : v \in UserValues}

(***************************************************************************)
(* Values.                                                                 *)
(***************************************************************************)
Undef         == [t |-> "undefined"]
Const(id)     == [t |-> "const", id |-> id]
Obj(f, n, as) == [t |-> "object", id |-> f, n |-> n, args |-> as]
List(items)   == [t |-> "array", items |-> items]

\* `typeof v.dispose === 'function'`
HasDispose(v) == v.t = "object" /\ v.id \in Disposables

\* JavaScript truthiness of a value (`if (dependency.value)`).
Truthy(v) ==
  \/ v.t \in {"object", "array"}
  \/ v.t = "const" /\ v.id \notin FalsyValues

\* IDependencyMetadata list recorded for a constructor, in the order the
\* decorators pushed it.
Marker(key, index) == [dependencyKey |-> key, parameterIndex |-> index]

Metadata(cls) ==
  CASE cls = "WiredDesc" -> << Marker("b", 1), Marker("a", 0) >>
    [] cls = "WiredAsc"  -> << Marker("a", 0), Marker("b", 1) >>
    [] cls = "WiredGap"  -> << Marker("b", 1) >>
    [] OTHER             -> << >>

(***************************************************************************)
(* Dependency records.                                                     *)
(***************************************************************************)
\* The `factory` field: a user function, an auto-wire closure, or the
\* closure `() => value` made for a value that is not a function.
UserFactory(f)   == [k |-> "fn", id |-> f]
AutoFactory(cls) == [k |-> "auto", id |-> cls]
ConstFactory(v)  == [k |-> "const", id |-> v]

\* new ConfiguredDependency(key, value).  `runs` and `total` are history
\* fields: the number of times this record invoked its factory since its
\* value was last cleared, and the number of times it invoked a user
\* function or a constructor since it was made.
ConfiguredDependency(key, in) ==
  IF in.fn
    THEN [type |-> "cfg", key |-> key, factory |-> UserFactory(in.id),
          value |-> Undef, resolved |-> FALSE, values |-> 0,
          runs |-> 0, total |-> 0]
    ELSE [type |-> "cfg", key |-> key, factory |-> ConstFactory(in.id),
          value |-> Const(in.id), resolved |-> FALSE, values |-> 0,
          runs |-> 0, total |-> 0]

\* new ConfiguredDependency(key, factory) where factory is a function.
ConfiguredFromFactory(key, factory) ==
  [type |-> "cfg", key |-> key, factory |-> factory,
   value |-> Undef, resolved |-> FALSE, values |-> 0,
   runs |-> 0, total |-> 0]

\* new ArrayDependency(key, values)
ArrayDependency(key, arr) ==
  [type |-> "arr", key |-> key, factory |-> ConstFactory("none"),
   value |-> Undef, resolved |-> FALSE, values |-> arr,
   runs |-> 0, total |-> 0]

\* A variant of isResolved() that reads the `resolved` flag on every record.
IsResolvedFlag(d) == d.resolved

\* isResolved()
IsResolved(d) ==
  IF d.type = "cfg" THEN d.value # Undef ELSE d.resolved

\* A variant of resolveValue that never uses the cached value.
NeedsFactoryAlways(d) == TRUE

\* ConfiguredDependency.resolveValue: `typeof this.value === 'undefined'`
NeedsFactory(d) == d.value = Undef

\* clone()
Clone(d) ==
  IF d.type = "cfg"
    THEN ConfiguredFromFactory(d.key, d.factory)
    ELSE ArrayDependency(d.key, d.values)

EmptyMap == [k \in AllKeys |-> 0]

(***************************************************************************)
(* Resolution.  A resolution runs on a heap st = [deps, calls, arrays,     *)
(* maps, conts], of which it changes deps and calls, and returns           *)
(* [st, ok, val]: the heap after it, whether it returned normally, and the *)
(* value returned or the error thrown.  A container is passed as its       *)
(* object [values, parent]: a reference to its hash and a reference to its *)
(* parent container (0 = none).                                            *)
(***************************************************************************)
Return(st, v) == [st |-> st, ok |-> TRUE, val |-> v]
Throw(st, e)  == [st |-> st, ok |-> FALSE, val |-> e]

\* new Error(`Unrecognized service: ${this.key}`)
Unrecognized(key) == [t |-> "error", id |-> "Unrecognized service", key |-> key]
\* call-stack exhaustion of an unbounded recursion
StackError        == [t |-> "error", id |-> "RangeError", key |-> ""]

\* A variant of UnknownDependency.resolveValue that returns undefined.
UnknownReturnsUndefined(st, key) == Return(st, Undef)

\* UnknownDependency.resolveValue
UnknownDependency(st, key) == Throw(st, Unrecognized(key))

\* The error thrown by the user function f.
UserError(f) == [t |-> "error", id |-> "thrown", key |-> f]

\* `new constructor(...params)` / a call of a user function
Construct(st, f, as) ==
  LET n == st.calls[f] + 1 IN
  IF f \in ThrowingFns
    THEN Throw([st EXCEPT !.calls[f] = n], UserError(f))
    ELSE IF f \in VoidFns
      THEN Return([st EXCEPT !.calls[f] = n], Undef)
      ELSE Return([st EXCEPT !.calls[f] = n], Obj(f, n, as))

Reverse(s) == [i \in 1..Len(s) |-> s[Len(s) + 1 - i]]

RECURSIVE GetService(_, _, _, _)
RECURSIVE ResolveValue(_, _, _, _)
RECURSIVE InvokeFactory(_, _, _, _)
RECURSIVE ResolveEach(_, _, _, _, _)
RECURSIVE GetEach(_, _, _, _, _)

\* A variant of _getService that, on a local miss, runs the factory of the
\* parent's record for the child instead of asking the parent.
GetServiceDetached(st, c, key, d) ==
  LET id  == st.maps[c.values][key]
      pid == IF c.parent = 0 THEN 0 ELSE st.maps[st.conts[c.parent].values][key]
  IN
  IF d = 0 THEN Throw(st, StackError)
  ELSE IF id = 0
    THEN IF c.parent # 0
           THEN IF pid # 0 /\ st.deps[pid].type = "cfg"
                  THEN InvokeFactory(st, st.deps[pid].factory, c, d - 1)
                  ELSE GetService(st, st.conts[c.parent], key, d - 1)
           ELSE UnknownDependency(st, key)
    ELSE ResolveValue(st, id, c, d - 1)

\* ServiceContainer._getService (and get(key) for a single key)
GetService(st, c, key, d) ==
  LET id == st.maps[c.values][key] IN
  IF d = 0 THEN Throw(st, StackError)
  ELSE IF id = 0
    THEN IF c.parent # 0
           THEN GetService(st, st.conts[c.parent], key, d - 1)
           ELSE UnknownDependency(st, key)
    ELSE ResolveValue(st, id, c, d - 1)

\* resolveValue(container) of ConfiguredDependency and of ArrayDependency
ResolveValue(st, id, c, d) ==
  LET dep == st.deps[id] IN
  IF dep.type = "cfg"
    THEN IF NeedsFactory(dep)
           THEN LET st1 == [st EXCEPT
                             !.deps[id].runs = @ + 1,
                             !.deps[id].total =
                                IF dep.factory.k = "const" THEN @ ELSE @ + 1]
                    r   == InvokeFactory(st1, dep.factory, c, d)
                IN  IF r.ok
                      THEN Return([r.st EXCEPT !.deps[id].value = r.val], r.val)
                      ELSE r
           ELSE Return(st, dep.value)
    ELSE LET st1 == [st EXCEPT !.deps[id].resolved = TRUE]
             r   == ResolveEach(st1, st.arrays[dep.values], c, d, << >>)
         IN  IF r.ok THEN Return(r.st, List(r.val)) ELSE r

\* this.values.map((x) => x.resolveValue(container))
ResolveEach(st, ids, c, d, acc) ==
  IF ids = << >> THEN Return(st, acc)
  ELSE LET r == ResolveValue(st, Head(ids), c, d) IN
       IF r.ok THEN ResolveEach(r.st, Tail(ids), c, d, Append(acc, r.val))
       ELSE r

\* A variant of the calls a factory makes into the container in which the
\* records written by an inner get are lost when it returns.
RECURSIVE GetEachLosing(_, _, _, _, _)
GetEachLosing(st, ms, c, d, acc) ==
  IF ms = << >> THEN Return(st, acc)
  ELSE LET r == GetService(st, c, Head(ms).dependencyKey, d) IN
       IF r.ok THEN GetEachLosing([r.st EXCEPT !.deps = st.deps], Tail(ms), c, d,
                                  Append(acc, r.val))
       ELSE r

\* paramTypes.map((metadata) => container.get(metadata.dependencyKey)), and
\* the calls of provider.get a user function makes
GetEach(st, ms, c, d, acc) ==
  IF ms = << >> THEN Return(st, acc)
  ELSE LET r == GetService(st, c, Head(ms).dependencyKey, d) IN
       IF r.ok THEN GetEach(r.st, Tail(ms), c, d, Append(acc, r.val))
       ELSE r

\* this.factory(container): the user function, the closure `() => value`,
\* or the closure returned by createAutoWireFactory
InvokeFactory(st, factory, c, d) ==
  IF factory.k = "const" THEN Return(st, Const(factory.id))
  ELSE IF factory.k = "fn"
    THEN IF factory.id \in CallingFns
           THEN LET r == GetEach(st, << Marker("b", 0) >>, c, d, << >>) IN
                IF r.ok THEN Construct(r.st, factory.id, r.val) ELSE r
           ELSE Construct(st, factory.id, << >>)
  ELSE LET metadata == Metadata(factory.id) IN
       IF Len(metadata) = 0 THEN Construct(st, factory.id, << >>)
       ELSE LET r == GetEach(st, Reverse(metadata), c, d, << >>) IN
            IF r.ok THEN Construct(r.st, factory.id, r.val) ELSE r

\* The key counts for which get(keys) has an overload.
BatchMin == 2
BatchMax == 10

\* new Error('Unsupported overload')
UnsupportedOverload == [t |-> "error", id |-> "Unsupported overload", key |-> ""]

\* A variant of the array literal of get(keys) that evaluates its elements
\* from the last to the first.
RECURSIVE GetKeysBackwards(_, _, _, _, _)
GetKeysBackwards(st, c, keys, d, acc) ==
  IF keys = << >> THEN Return(st, acc)
  ELSE LET r == GetService(st, c, keys[Len(keys)], d) IN
       IF r.ok THEN GetKeysBackwards(r.st, c, SubSeq(keys, 1, Len(keys) - 1), d,
                                     <<r.val>> \o acc)
       ELSE r

\* [this._getService(keys[0]), this._getService(keys[1]), ...]: the
\* elements are evaluated from left to right; the first throw ends it.
RECURSIVE GetKeys(_, _, _, _, _)
GetKeys(st, c, keys, d, acc) ==
  IF keys = << >> THEN Return(st, acc)
  ELSE LET r == GetService(st, c, Head(keys), d) IN
       IF r.ok THEN GetKeys(r.st, c, Tail(keys), d, Append(acc, r.val))
       ELSE r

\* A variant of get(keys) with an overload for every length.
GetBatchAnySize(st, c, keys, d) ==
  LET r == GetKeys(st, c, keys, d, << >>) IN
  IF r.ok THEN Return(r.st, List(r.val)) ELSE r

\* get(keys) for an array of keys
GetBatch(st, c, keys, d) ==
  IF Len(keys) \in BatchMin..BatchMax
    THEN LET r == GetKeys(st, c, keys, d, << >>) IN
         IF r.ok THEN Return(r.st, List(r.val)) ELSE r
    ELSE Throw(st, UnsupportedOverload)

\* The heap of the current state.
Heap ==
  [deps |-> deps, calls |-> calls, arrays |-> arrays, maps |-> maps,
   conts |-> conts]

\* The object made by `new ServiceContainer(values, parent)`.  `atFork` is
\* a history field: the keys whose record in the parent held a cached
\* value (or, for a multi-binding record, had been resolved) when
\* createChildContainer made this container.
ServiceContainer(values, parent) ==
  [values |-> values, parent |-> parent, atFork |-> {}]

(***************************************************************************)
(* ServiceCollection.  Its methods run on cs = [m, deps, arrays, ok]: the  *)
(* hash of the collection (this.values) and the heap; ok is FALSE when the *)
(* method threw.                                                           *)
(***************************************************************************)
\* `${this.key}-${this.values.length}`
SubKey(key, n) == <<key, n>>

\* A variant that stores the new entry at the front (unshift).
PushFront(arr, id) == <<id>> \o arr

\* The position at which ArrayDependency.register / push store the new
\* entry: this.values.push(...) appends.
PushAt(arr, id) == Append(arr, id)

\* register(key, value): this.values[key] = new ConfiguredDependency(...)
CollRegister(cs, key, in) ==
  LET id == Len(cs.deps) + 1 IN
  [cs EXCEPT !.deps = Append(@, ConfiguredDependency(key, in)),
             !.m[key] = id]

\* use(key, clazz): register(key, createAutoWireFactory(clazz))
CollUse(cs, key, cls) ==
  LET id == Len(cs.deps) + 1 IN
  [cs EXCEPT !.deps = Append(@, ConfiguredFromFactory(key, AutoFactory(cls))),
             !.m[key] = id]

\* The first half of add / addDependency: the record under `key`, created
\* as an empty ArrayDependency when `typeof dependency === 'undefined'`.
EnsureArray(cs, key) ==
  IF cs.m[key] # 0 THEN cs
  ELSE [cs EXCEPT !.deps = Append(@, ArrayDependency(key, Len(cs.arrays) + 1)),
                  !.arrays = Append(@, << >>),
                  !.m[key] = Len(cs.deps) + 1]

\* The second half: dependency.push(clazz) / dependency.register(value).
\* The record under `key` is used as an ArrayDependency whatever it is; a
\* ConfiguredDependency has neither method and the call throws TypeError.
PushEntry(cs, key, entry) ==
  LET dep == cs.deps[cs.m[key]] IN
  IF dep.type # "arr" THEN [cs EXCEPT !.ok = FALSE]
  ELSE LET id == Len(cs.deps) + 1 IN
       [cs EXCEPT !.deps = Append(@, entry),
                  !.arrays[dep.values] = PushAt(@, id)]

EntryKey(cs, key) == SubKey(key, Len(cs.arrays[cs.deps[cs.m[key]].values]))

\* add(key, clazz)
CollAdd(cs, key, cls) ==
  LET cs1 == EnsureArray(cs, key) IN
  IF cs1.deps[cs1.m[key]].type # "arr" THEN [cs1 EXCEPT !.ok = FALSE]
  ELSE PushEntry(cs1, key,
                 ConfiguredFromFactory(EntryKey(cs1, key), AutoFactory(cls)))

\* addDependency(key, value)
CollAddDependency(cs, key, in) ==
  LET cs1 == EnsureArray(cs, key) IN
  IF cs1.deps[cs1.m[key]].type # "arr" THEN [cs1 EXCEPT !.ok = FALSE]
  ELSE PushEntry(cs1, key, ConfiguredDependency(EntryKey(cs1, key), in))

\* Variants of import: { ...collection.values, ...this.values } and
\* { ...collection.values }.
ImportValuesMineWin(mine, theirs) ==
  [k \in AllKeys |-> IF mine[k] # 0 THEN mine[k] ELSE theirs[k]]

ImportValuesTheirsOnly(mine, theirs) == theirs

\* import(collection): { ...this.values, ...collection.values }
ImportValues(mine, theirs) ==
  [k \in AllKeys |-> IF theirs[k] # 0 THEN theirs[k] ELSE mine[k]]

\* One call made by a configureServices callback.
RegisterCall(key, in)      == [op |-> "register", key |-> key, in |-> in]
UseCall(key, cls)          == [op |-> "use", key |-> key, in |-> FnInput(cls)]
AddCall(key, cls)          == [op |-> "add", key |-> key, in |-> FnInput(cls)]
AddDependencyCall(key, in) == [op |-> "addDependency", key |-> key, in |-> in]

CollCall(cs, call) ==
  CASE call.op = "register"      -> CollRegister(cs, call.key, call.in)
    [] call.op = "use"           -> CollUse(cs, call.key, call.in.id)
    [] call.op = "add"           -> CollAdd(cs, call.key, call.in.id)
    [] call.op = "addDependency" -> CollAddDependency(cs, call.key, call.in)

\* registry.configureServices(services): the calls of the callback in
\* order; an exception ends the callback.
RECURSIVE ConfigureServices(_, _)
ConfigureServices(cs, body) ==
  IF body = << >> \/ ~cs.ok THEN cs
  ELSE ConfigureServices(CollCall(cs, Head(body)), Tail(body))

\* The registries (IServiceRegistry implementations) of the model.
Registries ==
  { << RegisterCall("b", ValueInput("v2")), RegisterCall("a", FnInput("F2")) >>,
    << AddCall("a", "PolicyB") >> }

CollState(col) ==
  [m |-> maps[colls[col]], deps |-> deps, arrays |-> arrays, ok |-> TRUE]

(***************************************************************************)
(* ServiceContainer: destroy, createChildContainer, dispose.               *)
(***************************************************************************)
\* value.dispose(): one more call of the dispose hook of object o
Bump(h, o) ==
  [x \in DOMAIN h \cup {o} |->
     IF x = o THEN (IF o \in DOMAIN h THEN h[o] ELSE 0) + 1 ELSE h[x]]

\* The guard of destroy: `dependency && dependency.value`
HasValue(d) == Truthy(d.value)

\* A variant of destroy that calls the dispose hook and keeps the value.
KeepValue(d) == d

\* `dependency.value = undefined` (and the history field of the record)
ClearValue(d) ==
  [d EXCEPT !.value = Undef, !.runs = 0]

\* destroy(key) run on ds = [deps, hooks] by the container with hash m
DestroyKey(ds, m, key) ==
  LET id == m[key] IN
  IF id = 0 THEN ds
  ELSE LET dep == ds.deps[id] IN
       IF ~HasValue(dep) THEN ds
       ELSE [deps  |-> [ds.deps EXCEPT ![id] = ClearValue(dep)],
             hooks |-> IF HasDispose(dep.value)
                         THEN Bump(ds.hooks, dep.value) ELSE ds.hooks]

\* Object.entries(this.values).filter(([, value]) => value.isResolved())
ResolvedKeys(ds, m) == {k \in AllKeys : m[k] # 0 /\ IsResolved(ds[m[k]])}

\* A variant of the filter of createChildContainer that keeps every key.
ForkKeysAll(ds, m) == {k \in AllKeys : m[k] # 0}

\* Object.entries(this.values).filter(([, value]) => !value.isResolved())
ForkKeys(ds, m) == {k \in AllKeys : m[k] # 0 /\ ~IsResolved(ds[m[k]])}

\* keys.forEach((key) => this.destroy(key))
RECURSIVE DestroyEach(_, _, _)
DestroyEach(ds, m, ks) ==
  IF ks = {} THEN ds
  ELSE LET k == CHOOSE x \in ks : TRUE IN
       DestroyEach(DestroyKey(ds, m, k), m, ks \ {k})

\* A variant of the loop of createChildContainer that stores the parent's
\* record itself: values[key] = this.values[key].
CloneEachShared(fs, src, ks) ==
  [fs EXCEPT !.m = [k \in AllKeys |-> IF k \in ks THEN src[k] ELSE fs.m[k]]]

\* keys.forEach((key) => { values[key] = this.values[key].clone(); })
\* run on fs = [m, deps]: the hash of the child and the heap
RECURSIVE CloneEach(_, _, _)
CloneEach(fs, src, ks) ==
  IF ks = {} THEN fs
  ELSE LET k == CHOOSE x \in ks : TRUE IN
       CloneEach([m    |-> [fs.m EXCEPT ![k] = Len(fs.deps) + 1],
                  deps |-> Append(fs.deps, Clone(fs.deps[src[k]]))],
                 src, ks \ {k})

\* The record get(key) on container c resolves: the local one, else the
\* one of the nearest ancestor holding the key; 0 when there is none.
RECURSIVE Holder(_, _)
Holder(c, key) ==
  LET id == maps[conts[c].values][key] IN
  IF id # 0 THEN id
  ELSE IF conts[c].parent # 0 THEN Holder(conts[c].parent, key) ELSE 0

(***************************************************************************)
(* History variables.                                                      *)
(***************************************************************************)
\* seen[c][k] is
\*   the value returned by the successful get(k) calls made on c since the
\*     last dispose / destroy (of any container);
\*   Wiped(n) when the last dispose() of c found k's record held by c and
\*     resolved, and k has not been resolved on any container since;
\*   None otherwise.
None  == [t |-> "none"]
IsWiped(e) == e.t = "wiped"
\* total: the `total` of k's record when dispose() cleared it
Wiped(total) == [t |-> "wiped", total |-> total]

SeenAfterGet(c, key, v) ==
  [x \in DOMAIN seen |-> [k \in AllKeys |->
     IF x = c /\ k = key THEN v
     ELSE IF k = key /\ IsWiped(seen[x][k]) THEN None
     ELSE seen[x][k]]]

SeenAfterDispose(c, m, ks) ==
  [x \in DOMAIN seen |-> [k \in AllKeys |->
     IF x = c /\ k \in ks THEN Wiped(deps[m[k]].total)
     ELSE IF IsWiped(seen[x][k]) /\ x # c THEN seen[x][k]
     ELSE None]]

SeenAfterDestroy ==
  [x \in DOMAIN seen |-> [k \in AllKeys |->
     IF IsWiped(seen[x][k]) THEN seen[x][k] ELSE None]]

\* obs: the operation performed by the last step, its receiver (container
\* c or collection col), its key, whether it returned normally, the value
\* returned or the error thrown, seen[c][key] before the step (prev) and
\* the number of invocations of every user function and constructor that
\* the step made (made).  For import and include, val describes the call:
\* the hashes of the receiver (mine) and of the imported collection
\* (theirs) before it, the imported collection (from), the callback of the
\* registry (body) and the size of the heap before the call (ndeps).
NoCalls ==
  [f \in UserFns \cup ThrowingFns \cup VoidFns \cup CallingFns \cup Classes
          \cup WiredClasses
          \cup GapClasses \cup ActivatorClasses |-> 0]

Obs(op, c, col, key, ok, val) ==
  [op |-> op, c |-> c, col |-> col, key |-> key, ok |-> ok, val |-> val,
   prev |-> None, made |-> NoCalls, keys |-> << >>]

ContIds == 1..Len(conts)

(***************************************************************************)
(* Initial states.  InitColl: two empty collections, no container.  Init:  *)
(* collection X has been configured by one of the callbacks of             *)
(* Configurations, run by the code of ServiceCollection itself.            *)
(***************************************************************************)
Configurations ==
  { << RegisterCall("a", ValueInput("v1")) >>,
    << RegisterCall("a", FnInput("F1")), RegisterCall("b", FnInput("F2")) >>,
    << UseCall("a", "PolicyA") >>,
    << AddCall("a", "PolicyA"), AddDependencyCall("a", FnInput("F2")) >> }

InitHeap(cs) ==
  /\ deps = cs.deps
  /\ arrays = cs.arrays
  /\ maps = << cs.m, EmptyMap >>
  /\ colls = [col \in Collections |-> IF col = "X" THEN 1 ELSE 2]
  /\ conts = << >>
  /\ calls = NoCalls
  /\ hooks = [o \in {} |-> 0]
  /\ seen = [c \in 1..MaxConts |-> [k \in AllKeys |-> None]]
  /\ added = [col \in Collections |-> [k \in AllKeys |-> << >>]]
  /\ obs = Obs("init", 0, "", "", TRUE, Undef)
  /\ activated = << >>
  /\ contexts = << >>
  /\ stacks = << >>

EmptyCollection ==
  [m |-> EmptyMap, deps |-> << >>, arrays |-> << >>, ok |-> TRUE]

InitColl == InitHeap(EmptyCollection)

Init == \E body \in Configurations :
          InitHeap(ConfigureServices(EmptyCollection, body))

(***************************************************************************)
(* Actions of ServiceCollection.                                           *)
(***************************************************************************)
\* The effect of a method that ran on the collection's own hash.
Store(col, cs) ==
  /\ deps' = cs.deps
  /\ arrays' = cs.arrays
  /\ maps' = [maps EXCEPT ![colls[col]] = cs.m]
  /\ UNCHANGED <<colls, conts, calls, hooks, seen, activated, contexts, stacks>>

Register(col, key, in) ==
  /\ Store(col, CollRegister(CollState(col), key, in))
  /\ added' = [added EXCEPT ![col][key] = << >>]
  /\ obs' = Obs("register", 0, col, key, TRUE, Undef)

Use(col, key, cls) ==
  /\ Store(col, CollUse(CollState(col), key, cls))
  /\ added' = [added EXCEPT ![col][key] = << >>]
  /\ obs' = Obs("use", 0, col, key, TRUE, Undef)

Add(col, key, cls) ==
  LET cs == CollAdd(CollState(col), key, cls) IN
  /\ Store(col, cs)
  /\ added' = IF cs.ok
                 THEN [added EXCEPT ![col][key] = Append(@, AddCall(key, cls))]
                 ELSE added
  /\ obs' = Obs("add", 0, col, key, cs.ok, Undef)

AddDependency(col, key, in) ==
  LET cs == CollAddDependency(CollState(col), key, in) IN
  /\ Store(col, cs)
  /\ added' = IF cs.ok
                 THEN [added EXCEPT ![col][key] =
                         Append(@, AddDependencyCall(key, in))]
                 ELSE added
  /\ obs' = Obs("addDependency", 0, col, key, cs.ok, Undef)

\* x.import(y): this.values is replaced by a new hash
Import(x, y) ==
  /\ Len(maps) < MaxMaps
  /\ maps' = Append(maps, ImportValues(maps[colls[x]], maps[colls[y]]))
  /\ colls' = [colls EXCEPT ![x] = Len(maps) + 1]
  /\ obs' = Obs("import", 0, x, "", TRUE,
               [mine |-> maps[colls[x]], theirs |-> maps[colls[y]],
                from |-> y, body |-> << >>, ndeps |-> Len(deps)])
  /\ UNCHANGED <<deps, arrays, conts, calls, hooks, seen, added, activated, contexts, stacks>>

\* include(registry): the callback runs on a new ServiceCollection, which
\* is then imported
Include(col, body) ==
  LET scratch == [m |-> EmptyMap, deps |-> deps, arrays |-> arrays, ok |-> TRUE]
      cs      == ConfigureServices(scratch, body)
  IN  /\ Len(maps) < MaxMaps
      /\ deps' = cs.deps
      /\ arrays' = cs.arrays
      /\ IF cs.ok
           THEN /\ maps' = Append(maps, ImportValues(maps[colls[col]], cs.m))
                /\ colls' = [colls EXCEPT ![col] = Len(maps) + 1]
           ELSE UNCHANGED <<maps, colls>>
      /\ obs' = Obs("include", 0, col, "", cs.ok,
                   [mine |-> maps[colls[col]], theirs |-> cs.m,
                    from |-> "", body |-> body, ndeps |-> Len(deps)])
      /\ UNCHANGED <<conts, calls, hooks, seen, added, activated, contexts, stacks>>

\* importRegistry(registry): the callback runs on this collection
ImportRegistry(col, body) ==
  LET cs == ConfigureServices(CollState(col), body) IN
  /\ Store(col, cs)
  /\ obs' = Obs("importRegistry", 0, col, "", cs.ok,
               [mine |-> maps[colls[col]], theirs |-> cs.m,
                from |-> "", body |-> body, ndeps |-> Len(deps)])
  /\ UNCHANGED added

\* buildContainer(): new ServiceContainer(this.values)
BuildContainer(col) ==
  /\ Len(conts) < MaxConts
  /\ conts' = Append(conts, ServiceContainer(colls[col], 0))
  /\ obs' = Obs("buildContainer", Len(conts) + 1, col, "", TRUE, Undef)
  /\ UNCHANGED <<deps, arrays, maps, colls, calls, hooks, seen, added, activated, contexts, stacks>>

(***************************************************************************)
(* Actions of ServiceContainer.                                            *)
(***************************************************************************)
\* The invocations of the user functions and constructors fs so far.
RECURSIVE CallCount(_, _)
CallCount(cs, fs) ==
  IF fs = {} THEN 0
  ELSE LET f == CHOOSE x \in fs : TRUE IN cs[f] + CallCount(cs, fs \ {f})

\* get(key)
Get(c, key) ==
  LET r == GetService(Heap, conts[c], key, MaxDepth) IN
  /\ CallCount(r.st.calls, DOMAIN calls) <= MaxCalls
  /\ deps' = r.st.deps
  /\ calls' = r.st.calls
  /\ seen' = IF r.ok THEN SeenAfterGet(c, key, r.val) ELSE seen
  /\ obs' = [Obs("get", c, "", key, r.ok, r.val) EXCEPT
               !.prev = seen[c][key],
               !.made = [f \in DOMAIN calls |-> r.st.calls[f] - calls[f]]]
  /\ UNCHANGED <<arrays, maps, colls, conts, hooks, added, activated, contexts, stacks>>

\* get(keys)
GetAll(c, keys) ==
  LET r == GetBatch(Heap, conts[c], keys, MaxDepth) IN
  /\ CallCount(r.st.calls, DOMAIN calls) <= MaxCalls
  /\ deps' = r.st.deps
  /\ calls' = r.st.calls
  /\ obs' = [Obs("getAll", c, "", "", r.ok, r.val) EXCEPT
               !.keys = keys,
               !.made = [f \in DOMAIN calls |-> r.st.calls[f] - calls[f]]]
  /\ UNCHANGED <<arrays, maps, colls, conts, hooks, seen, added, activated, contexts, stacks>>

(***************************************************************************)
(* Bootstrapping: createContainer(modules, options).                       *)
(***************************************************************************)
\* const defaultOptions: BootstrapOptions = { runActivators: true }
DefaultOptions == [given |-> TRUE, runActivators |-> TRUE]

\* The `options` argument: omitted, or a BootstrapOptions object.
Omitted == [given |-> FALSE, runActivators |-> FALSE]
BootOptions ==
  {Omitted} \cup {[given |-> TRUE, runActivators |-> b] : b \in BOOLEAN}

\* options: BootstrapOptions = defaultOptions
OptionsOrDefault(opt) == IF opt.given THEN opt ELSE DefaultOptions

\* isRegistered(key): typeof this.values[key] !== 'undefined'
IsRegistered(m, key) == m[key] # 0

\* A variant of the loop over the modules that runs them last to first.
RECURSIVE ConfigureModulesBackwards(_, _)
ConfigureModulesBackwards(cs, modules) ==
  IF modules = << >> \/ ~cs.ok THEN cs
  ELSE ConfigureModulesBackwards(
         ConfigureServices(cs, modules[Len(modules)]),
         SubSeq(modules, 1, Len(modules) - 1))

\* modules.forEach((module) => module.configureServices(services))
RECURSIVE ConfigureModules(_, _)
ConfigureModules(cs, modules) ==
  IF modules = << >> \/ ~cs.ok THEN cs
  ELSE ConfigureModules(ConfigureServices(cs, Head(modules)), Tail(modules))

\* A variant of the condition that ignores the option.
RunsActivatorsAlways(options, m) == IsRegistered(m, Activators)

\* options.runActivators && services.isRegistered(Activators)
RunsActivators(options, m) ==
  options.runActivators /\ IsRegistered(m, Activators)

\* `activators && activators.length`
HasLength(v) == v.t = "array" /\ Len(v.items) > 0

\* An object with an activate() method.
CanActivate(v) == v.t = "object" /\ v.id \in ActivatorClasses

\* activators.forEach((x) => x.activate()) run on log = [ok, done]: the
\* objects activated so far; an element without activate() throws.
RECURSIVE ActivateEach(_, _)
ActivateEach(log, items) ==
  IF items = << >> \/ ~log.ok THEN log
  ELSE IF CanActivate(Head(items))
    THEN ActivateEach([log EXCEPT !.done = Append(@, Head(items))], Tail(items))
    ELSE [log EXCEPT !.ok = FALSE]

\* createContainer(modules, options)
CreateContainer(modules, opt) ==
  LET options   == OptionsOrDefault(opt)
      cs        == ConfigureModules(
                     [m |-> EmptyMap, deps |-> deps, arrays |-> arrays,
                      ok |-> TRUE], modules)
      container == ServiceContainer(Len(maps) + 1, 0)
      built     == [deps |-> cs.deps, calls |-> calls, arrays |-> cs.arrays,
                    maps |-> Append(maps, cs.m),
                    conts |-> IF cs.ok THEN Append(conts, container) ELSE conts]
      run       == cs.ok /\ RunsActivators(options, cs.m)
      r         == IF run THEN GetService(built, container, Activators, MaxDepth)
                   ELSE Return(built, Undef)
      log       == IF run /\ r.ok /\ HasLength(r.val)
                     THEN ActivateEach([ok |-> TRUE, done |-> activated],
                                       r.val.items)
                     ELSE [ok |-> TRUE, done |-> activated]
  IN  /\ Len(conts) < MaxConts
      /\ CallCount(r.st.calls, DOMAIN calls) <= MaxCalls
      /\ deps' = r.st.deps
      /\ arrays' = built.arrays
      /\ maps' = built.maps
      /\ conts' = built.conts
      /\ calls' = r.st.calls
      /\ activated' = log.done
      /\ obs' = Obs("createContainer", Len(conts) + 1, "", "",
                    cs.ok /\ r.ok /\ log.ok,
                    [modules |-> modules, options |-> opt,
                     before |-> Len(activated)])
      /\ UNCHANGED <<colls, hooks, seen, added, contexts, stacks>>

\* resolve(clazz): createAutoWireFactory(clazz)(this)
Resolve(c, cls) ==
  LET r == InvokeFactory(Heap, AutoFactory(cls), conts[c], MaxDepth) IN
  /\ CallCount(r.st.calls, DOMAIN calls) <= MaxCalls
  /\ deps' = r.st.deps
  /\ calls' = r.st.calls
  /\ obs' = [Obs("resolve", c, "", cls, r.ok, r.val) EXCEPT
               !.made = [f \in DOMAIN calls |-> r.st.calls[f] - calls[f]]]
  /\ UNCHANGED <<arrays, maps, colls, conts, hooks, seen, added, activated, contexts, stacks>>

\* createChildContainer(provenance)
Fork(c) ==
  LET src == maps[conts[c].values]
      fs  == CloneEach([m |-> EmptyMap, deps |-> deps], src, ForkKeys(deps, src))
  IN  /\ deps' = fs.deps
      /\ maps' = Append(maps, fs.m)
      /\ conts' = Append(conts,
                   [ServiceContainer(Len(maps) + 1, c) EXCEPT !.atFork =
                      {k \in AllKeys : /\ src[k] # 0
                                    /\ \/ deps[src[k]].value # Undef
                                       \/ deps[src[k]].resolved}])
      /\ obs' = Obs("createChildContainer", c, "", "", TRUE, Undef)
      /\ UNCHANGED <<arrays, colls, calls, hooks, seen, added, activated, contexts, stacks>>

\* createChildContainer, while the heap has room for a container
CreateChildContainer(c) == Len(conts) < MaxConts /\ Fork(c)

\* dispose()
Dispose(c) ==
  LET m  == maps[conts[c].values]
      ks == ResolvedKeys(deps, m)
      ds == DestroyEach([deps |-> deps, hooks |-> hooks], m, ks)
  IN  /\ deps' = ds.deps
      /\ hooks' = ds.hooks
      /\ seen' = SeenAfterDispose(c, m,
                    {k \in AllKeys : /\ m[k] # 0
                                  /\ \/ deps[m[k]].value # Undef
                                     \/ deps[m[k]].resolved})
      /\ obs' = Obs("dispose", c, "", "", TRUE, Undef)
      /\ UNCHANGED <<arrays, maps, colls, conts, calls, added, activated, contexts, stacks>>

\* destroy(key)
Destroy(c, key) ==
  LET ds == DestroyKey([deps |-> deps, hooks |-> hooks],
                       maps[conts[c].values], key)
  IN  /\ deps' = ds.deps
      /\ hooks' = ds.hooks
      /\ seen' = SeenAfterDestroy
      /\ obs' = Obs("destroy", c, "", key, TRUE, Undef)
      /\ UNCHANGED <<arrays, maps, colls, conts, calls, added, activated, contexts, stacks>>

\* The container operations, on the container built from collection X and
\* on the containers forked from it.
Next ==
  \/ conts = << >> /\ BuildContainer("X")
  \/ \E c \in ContIds, key \in Keys : Get(c, key)
  \/ \E c \in ContIds : CreateChildContainer(c)
  \/ \E c \in ContIds : Dispose(c)
  \/ \E c \in ContIds, key \in Keys : Destroy(c, key)

Spec == Init /\ [][Next]_vars

(***************************************************************************)
(* SpecImport: collections X and Y have been configured; they are merged   *)
(* by import and include, and a container is built from one of them.       *)
(***************************************************************************)
BodiesX ==
  { << RegisterCall("a", ValueInput("v1")) >>,
    << RegisterCall("a", FnInput("F1")), RegisterCall("b", ValueInput("v1")) >>,
    << AddCall("a", "PolicyA") >> }

BodiesY ==
  { << RegisterCall("a", ValueInput("v2")) >>,
    << RegisterCall("b", FnInput("F2")) >>,
    << AddDependencyCall("a", ValueInput("v2")), RegisterCall("b", ValueInput("v2")) >> }

InitImport ==
  \E bx \in BodiesX, by \in BodiesY :
    LET x == ConfigureServices(EmptyCollection, bx)
        y == ConfigureServices([x EXCEPT !.m = EmptyMap], by)
    IN  /\ deps = y.deps
        /\ arrays = y.arrays
        /\ maps = << x.m, y.m >>
        /\ colls = [col \in Collections |-> IF col = "X" THEN 1 ELSE 2]
        /\ conts = << >>
        /\ calls = NoCalls
        /\ hooks = [o \in {} |-> 0]
        /\ seen = [c \in 1..MaxConts |-> [k \in AllKeys |-> None]]
        /\ added = [col \in Collections |-> [k \in AllKeys |-> << >>]]
        /\ obs = Obs("init", 0, "", "", TRUE, Undef)
        /\ activated = << >>
        /\ contexts = << >>
        /\ stacks = << >>

NextImport ==
  \/ \E x, y \in Collections : x # y /\ Import(x, y)
  \/ \E body \in Registries : Include("X", body)
  \/ \E col \in Collections : conts = << >> /\ BuildContainer(col)
  \/ \E c \in ContIds, key \in Keys : Get(c, key)

SpecImport == InitImport /\ [][NextImport]_vars

(***************************************************************************)
(* SpecAdd: multi-binding registrations on collection X, which starts      *)
(* empty, and the container built from it.                                 *)
(***************************************************************************)
\* The entries of all the multi-binding records on the heap.
RECURSIVE EntryCount(_)
EntryCount(as) == IF as = << >> THEN 0 ELSE Len(Head(as)) + EntryCount(Tail(as))

NextAdd ==
  \/ \E key \in Keys, cls \in Classes :
       EntryCount(arrays) < MaxEntries /\ Add("X", key, cls)
  \/ \E key \in Keys, in \in {ValueInput("v1"), FnInput("F1")} :
       EntryCount(arrays) < MaxEntries /\ AddDependency("X", key, in)
  \/ conts = << >> /\ BuildContainer("X")
  \/ \E c \in ContIds, key \in Keys : Get(c, key)

SpecAdd == InitColl /\ [][NextAdd]_vars

(***************************************************************************)
(* Properties.                                                             *)
(***************************************************************************)
\* The record held by container c itself under key (0 = none).
Local(c, key) == maps[conts[c].values][key]

\* A single-binding record registered with a factory (a user function or
\* an auto-wired class), as opposed to a value.
FactoryBacked(d) == d.type = "cfg" /\ d.factory.k \in {"fn", "auto"}

IsValue(e) == e.t \notin {"none", "wiped"}

\* The value a record holds in its cache: `value`, or for a multi-binding
\* record the list of the values held by its entries.
CachedValue(id) ==
  IF deps[id].type = "cfg" THEN deps[id].value
  ELSE List([i \in 1..Len(arrays[deps[id].values]) |->
               deps[arrays[deps[id].values][i]].value])

\* Every factory of the record ran exactly once since the cached value was
\* last cleared.
RunsOnce(id) ==
  IF deps[id].type = "cfg"
    THEN FactoryBacked(deps[id]) => deps[id].runs = 1
    ELSE \A i \in 1..Len(arrays[deps[id].values]) :
           LET e == deps[arrays[deps[id].values][i]] IN
           FactoryBacked(e) => e.runs = 1

HookCount(h, v) == IF v \in DOMAIN h THEN h[v] ELSE 0

\* C1: when get(K) is called on a container on which an earlier get(K)
\* succeeded, with no dispose or destroy since, and K is registered with a
\* factory, the call returns the instance the earlier calls returned, it
\* invokes no user function or constructor, and the factory of K's record
\* has run exactly once.
C1_ResolveOnce ==
  (/\ obs.op = "get" /\ obs.ok /\ IsValue(obs.prev)
   /\ FactoryBacked(deps[Holder(obs.c, obs.key)]))
  => /\ obs.val = obs.prev
     /\ obs.made = NoCalls
     /\ deps[Holder(obs.c, obs.key)].runs = 1

C1_Witness ==
  /\ obs.op = "get" /\ obs.ok /\ IsValue(obs.prev)
  /\ FactoryBacked(deps[Holder(obs.c, obs.key)])
  /\ obs.val.t = "object" /\ obs.val = obs.prev
  /\ calls[obs.val.id] = 1

\* C2: for a container C with parent P and a key K that C does not hold
\* and P or an ancestor of P does, what get(K) returned on C and what it
\* returned on P (since the last dispose / destroy) are the same value, it
\* is the value cached in the record of the container that holds K, and
\* every factory of that record has run exactly once.
C2_ParentDelegation ==
  \A c \in ContIds : \A k \in Keys :
    LET p == conts[c].parent IN
    (p # 0 /\ Local(c, k) = 0 /\ Holder(p, k) # 0) =>
      LET h == Holder(p, k) IN
      /\ (IsValue(seen[c][k]) /\ IsValue(seen[p][k])) => seen[c][k] = seen[p][k]
      /\ \A x \in {c, p} :
           IsValue(seen[x][k]) => (seen[x][k] = CachedValue(h) /\ RunsOnce(h))

C2_Witness ==
  \E c \in ContIds : \E k \in Keys :
    LET p == conts[c].parent IN
    /\ p # 0 /\ Local(c, k) = 0 /\ Holder(p, k) # 0
    /\ FactoryBacked(deps[Holder(p, k)])
    /\ IsValue(seen[c][k]) /\ seen[c][k] = seen[p][k]
    /\ calls[deps[Holder(p, k)].factory.id] = 1

\* C3: when K's record in the parent held a cached value at the time the
\* child was created and still holds it, get(K) on the child returns that
\* very instance and invokes no user function or constructor; dispose() of
\* the child leaves the parent's record and its value untouched.
C3_ParentValuePersists ==
  [][\A c \in ContIds : \A k \in Keys :
       LET p == conts[c].parent IN
       (/\ p # 0 /\ k \in conts[c].atFork
        /\ deps[Local(p, k)].type = "cfg"
        /\ deps[Local(p, k)].value # Undef) =>
         /\ (obs'.op = "get" /\ obs'.c = c /\ obs'.key = k) =>
              /\ obs'.ok
              /\ obs'.val = deps[Local(p, k)].value
              /\ calls' = calls
              /\ deps' = deps
         /\ (obs'.op = "dispose" /\ obs'.c = c) =>
              /\ deps'[Local(p, k)] = deps[Local(p, k)]
              /\ HookCount(hooks', deps[Local(p, k)].value)
                   = HookCount(hooks, deps[Local(p, k)].value)
    ]_vars

\* The child was disposed (its own key b was cleared) and then resolved
\* key a, which the parent had resolved before the fork.
C3_Witness ==
  /\ obs.op = "get" /\ obs.ok /\ obs.key = "a"
  /\ conts[obs.c].parent # 0
  /\ "a" \in conts[obs.c].atFork
  /\ FactoryBacked(deps[Local(conts[obs.c].parent, "a")])
  /\ obs.val = deps[Local(conts[obs.c].parent, "a")].value
  /\ calls[obs.val.id] = 1
  /\ IsWiped(seen[obs.c]["b"])

\* C4, as stated: when K's record in the parent held a cached value at the
\* time the child was created, a successful get(K) on the child invokes
\* K's factory and returns an instance other than the one cached by the
\* parent.
C4_ChildResolvesAgain ==
  (/\ obs.op = "get" /\ obs.ok
   /\ conts[obs.c].parent # 0
   /\ obs.key \in conts[obs.c].atFork
   /\ FactoryBacked(deps[Holder(obs.c, obs.key)]))
  => /\ obs.made # NoCalls
     /\ obs.val # deps[Local(conts[obs.c].parent, obs.key)].value

\* C4, amended: when K's record in the parent held a cached value at the
\* time the child was created, the child holds no record for K; a
\* successful get(K) on the child returns the instance cached in the
\* parent's record, and the factory of that record has run once, not once
\* more for the child.
C4_ChildDelegates ==
  \A c \in ContIds : \A k \in conts[c].atFork :
    LET p == conts[c].parent IN
    /\ Local(c, k) = 0
    /\ (obs.op = "get" /\ obs.ok /\ obs.c = c /\ obs.key = k) =>
         (obs.val = CachedValue(Local(p, k)) /\ RunsOnce(Local(p, k)))

C4_Witness ==
  /\ obs.op = "get" /\ obs.ok
  /\ conts[obs.c].parent # 0
  /\ obs.key \in conts[obs.c].atFork
  /\ Local(obs.c, obs.key) = 0
  /\ FactoryBacked(deps[Local(conts[obs.c].parent, obs.key)])
  /\ obs.made = NoCalls
  /\ obs.val.t = "object"
  /\ obs.val = deps[Local(conts[obs.c].parent, obs.key)].value

\* C5: for a key K that the child and its parent both hold in a
\* single-binding record with a factory (the child's record is the clone
\* made at the fork, when the parent's was unresolved): the two records are
\* different objects; get(K) on the child leaves the parent's record as it
\* was and get(K) on the parent leaves the child's record as it was; when
\* both are resolved they cache different instances, each made by one run
\* of the factory.
C5_Records ==
  \A c \in ContIds : \A k \in Keys :
    LET p == conts[c].parent IN
    (/\ p # 0 /\ Local(c, k) # 0 /\ Local(p, k) # 0
     /\ FactoryBacked(deps[Local(c, k)])) =>
      /\ Local(c, k) # Local(p, k)
      /\ deps[Local(c, k)].factory = deps[Local(p, k)].factory
      /\ (IsResolved(deps[Local(c, k)]) /\ IsResolved(deps[Local(p, k)])) =>
           /\ deps[Local(c, k)].value # deps[Local(p, k)].value
           /\ deps[Local(c, k)].runs = 1
           /\ deps[Local(p, k)].runs = 1

C5_Steps ==
  [][\A c \in ContIds : \A k \in Keys :
       LET p == conts[c].parent IN
       (/\ p # 0 /\ Local(c, k) # 0 /\ Local(p, k) # 0
        /\ FactoryBacked(deps[Local(c, k)])) =>
         /\ (obs'.op = "get" /\ obs'.c = c /\ obs'.key = k) =>
              deps'[Local(p, k)] = deps[Local(p, k)]
         /\ (obs'.op = "get" /\ obs'.c = p /\ obs'.key = k) =>
              deps'[Local(c, k)] = deps[Local(c, k)]
    ]_vars

C5_ForkIndependent == []C5_Records /\ C5_Steps

\* The child resolved K first, the parent afterwards: two instances.
C5_Witness ==
  /\ obs.op = "get" /\ obs.ok /\ obs.made # NoCalls
  /\ \E c \in ContIds :
       /\ conts[c].parent = obs.c
       /\ Local(c, obs.key) # 0 /\ Local(obs.c, obs.key) # 0
       /\ FactoryBacked(deps[Local(c, obs.key)])
       /\ IsResolved(deps[Local(c, obs.key)])
       /\ deps[Local(c, obs.key)].value # obs.val
       /\ deps[Local(obs.c, obs.key)].value = obs.val

\* C6: a successful get(K) on a container whose last dispose() cleared K
\* (a single-binding key with a factory, not resolved by anyone since)
\* invokes K's factory exactly once more and returns a new instance: the
\* record has then run its factory once more than before the dispose,
\* twice in all when that was the first dispose.
C6_DisposeResets ==
  (/\ obs.op = "get" /\ obs.ok /\ IsWiped(obs.prev)
   /\ FactoryBacked(deps[Local(obs.c, obs.key)]))
  => LET d == deps[Local(obs.c, obs.key)] IN
     /\ obs.made[d.factory.id] = 1
     /\ d.total = obs.prev.total + 1
     /\ obs.prev.total >= 1
     /\ obs.val = d.value
     /\ obs.val.n = calls[d.factory.id]

C6_Witness ==
  /\ obs.op = "get" /\ obs.ok /\ IsWiped(obs.prev)
  /\ FactoryBacked(deps[Local(obs.c, obs.key)])
  /\ deps[Local(obs.c, obs.key)].total = 2
  /\ calls[deps[Local(obs.c, obs.key)].factory.id] = 2

\* C7: get(K) fails exactly when neither the container nor any container
\* on its parent chain holds K; the error is `Unrecognized service: K`, and
\* the failed call changes no record, no hash and no counter.
C7_Failure ==
  obs.op = "get" =>
    /\ obs.ok <=> Holder(obs.c, obs.key) # 0
    /\ ~obs.ok => obs.val = Unrecognized(obs.key)

C7_Frame ==
  [][(obs'.op = "get" /\ ~obs'.ok) =>
       /\ deps' = deps /\ arrays' = arrays /\ maps' = maps
       /\ conts' = conts /\ calls' = calls /\ hooks' = hooks
    ]_vars

C7_UnknownKey == []C7_Failure /\ C7_Frame

\* The failing call was made on a child: the lookup went up to the root.
C7_Witness ==
  /\ obs.op = "get" /\ ~obs.ok
  /\ conts[obs.c].parent # 0
  /\ obs.val = Unrecognized(obs.key)

\* What one registration call makes its record resolve to: the value
\* itself for a value that is not a function, else an object made by the
\* user function or by the class.
Yields(call, v) ==
  IF call.in.fn
    THEN v.t = "object" /\ v.id = call.in.id
    ELSE v = Const(call.in.id)

\* What the calls made under one key make the key resolve to: for add /
\* addDependency calls a list with one element per call, in call order;
\* else what the last register / use call yields.
YieldsAll(cs, v) ==
  IF \A i \in 1..Len(cs) : cs[i].op \in {"add", "addDependency"}
    THEN /\ v.t = "array"
         /\ Len(v.items) = Len(cs)
         /\ \A i \in 1..Len(cs) : Yields(cs[i], v.items[i])
    ELSE Yields(cs[Len(cs)], v)

CallsUnder(body, k) == SelectSeq(body, LAMBDA call : call.key = k)

\* The result of get(k) on the container that buildContainer() makes of
\* collection col in the current state.
BuiltGet(col, k) ==
  GetService(Heap, ServiceContainer(colls[col], 0), k, MaxDepth)

\* C8: right after X.import(Y), for every key K of Y the container built
\* from X resolves Y's record (get(K) on it returns what get(K) returns on
\* a container built from Y, and X's own record for K is not touched);
\* every key held by X only is still bound to X's record and resolves; the
\* hash of Y is as it was.
C8_ImportedWins ==
  obs.op = "import" =>
    LET x == obs.col
        y == obs.val.from
        mine == obs.val.mine
        theirs == obs.val.theirs
    IN  /\ maps[colls[y]] = theirs
        /\ \A k \in Keys :
             LET r == BuiltGet(x, k) IN
             /\ theirs[k] # 0 =>
                  /\ maps[colls[x]][k] = theirs[k]
                  /\ r.ok
                  /\ r.val = BuiltGet(y, k).val
                  /\ \/ deps[theirs[k]].type = "arr"
                     \/ r.val = r.st.deps[theirs[k]].value
                  /\ (mine[k] # 0 /\ mine[k] # theirs[k]) =>
                       r.st.deps[mine[k]] = deps[mine[k]]
             /\ (theirs[k] = 0 /\ mine[k] # 0) =>
                  /\ maps[colls[x]][k] = mine[k]
                  /\ r.ok
             /\ (theirs[k] = 0 /\ mine[k] = 0) => ~r.ok

\* An import with a collision on key a and a key held by X only.
C8_Witness ==
  /\ obs.op = "import" /\ obs.col = "X"
  /\ obs.val.mine["a"] # 0 /\ obs.val.theirs["a"] # 0
  /\ obs.val.mine["a"] # obs.val.theirs["a"]
  /\ obs.val.mine["b"] # 0 /\ obs.val.theirs["b"] = 0
  /\ maps[colls["X"]]["a"] = obs.val.theirs["a"]
  /\ BuiltGet("X", "a").val = Const("v2")

\* C9: right after collection.include(registry), every key registered by
\* the registry's configureServices is bound to a record made by the
\* registry and resolves to what the registry registered (for add, a list
\* holding the registry's entries only), also when the collection held the
\* key before; every other key is bound to the record it had.
C9_RegistryWins ==
  (obs.op = "include" /\ obs.ok) =>
    \A k \in Keys :
      LET cs == CallsUnder(obs.val.body, k) IN
      IF cs # << >>
        THEN /\ maps[colls[obs.col]][k] > obs.val.ndeps
             /\ BuiltGet(obs.col, k).ok
             /\ YieldsAll(cs, BuiltGet(obs.col, k).val)
        ELSE maps[colls[obs.col]][k] = obs.val.mine[k]

\* An include whose registry adds under key a, which the collection held,
\* and leaves key b, which the collection held too.
C9_Witness ==
  /\ obs.op = "include" /\ obs.ok
  /\ obs.val.mine["a"] # 0 /\ obs.val.mine["b"] # 0
  /\ CallsUnder(obs.val.body, "a") # << >>
  /\ CallsUnder(obs.val.body, "b") = << >>
  /\ maps[colls[obs.col]]["a"] # obs.val.mine["a"]
  /\ maps[colls[obs.col]]["b"] = obs.val.mine["b"]

\* C10: after any sequence of add / addDependency calls under key K,
\* every successful get(K) returns a list with one element per call, the
\* i-th element being what the i-th call registered; a later resolution
\* returns the very elements of the earlier one, followed by those of the
\* calls made in between.
C10_MultiBindingOrder ==
  (obs.op = "get" /\ obs.ok) =>
    /\ YieldsAll(added["X"][obs.key], obs.val)
    /\ added["X"][obs.key] # << >>
    /\ IsValue(obs.prev) =>
         /\ Len(obs.prev.items) <= Len(obs.val.items)
         /\ obs.prev.items = SubSeq(obs.val.items, 1, Len(obs.prev.items))

\* A second resolution of a key added to three times, two of them before
\* the first resolution.
C10_Witness ==
  /\ obs.op = "get" /\ obs.ok /\ IsValue(obs.prev)
  /\ Len(obs.prev.items) = 2
  /\ Len(obs.val.items) = 3
  /\ added["X"][obs.key][1].in # added["X"][obs.key][2].in

(***************************************************************************)
(* SpecWire: auto-wiring.  Collection X registers the keys of the markers  *)
(* (or a alone); classes are resolved on the container built from X and on *)
(* the containers forked from it.                                          *)
(***************************************************************************)
WireConfigurations ==
  { << RegisterCall("a", ValueInput("v1")), RegisterCall("b", ValueInput("v2")) >>,
    << RegisterCall("a", FnInput("F1")), RegisterCall("b", ValueInput("v2")) >>,
    << RegisterCall("a", FnInput("F1")),
       AddDependencyCall("b", ValueInput("v1")), AddDependencyCall("b", ValueInput("v2")) >>,
    << RegisterCall("a", FnInput("F1")) >> }

InitWire == \E body \in WireConfigurations :
              InitHeap(ConfigureServices(EmptyCollection, body))

NextWire ==
  \/ conts = << >> /\ BuildContainer("X")
  \/ \E c \in ContIds, key \in Keys : Get(c, key)
  \/ \E c \in ContIds, cls \in WiredClasses : Resolve(c, cls)
  \/ \E c \in ContIds : CreateChildContainer(c)

SpecWire == InitWire /\ [][NextWire]_vars

\* C11: a class whose constructor parameters 0 and 1 carry the markers of
\* keys a and b is instantiated by resolve with the argument list
\* (get("a"), get("b")), whatever the order in which the markers were
\* recorded.
C11_WiredInOrder ==
  (obs.op = "resolve" /\ obs.ok) =>
    obs.val.args = << GetService(Heap, conts[obs.c], "a", MaxDepth).val,
                      GetService(Heap, conts[obs.c], "b", MaxDepth).val >>

\* The part of C11 that the code keeps: markers recorded in descending
\* parameter order.
C11_DescendingInOrder ==
  (obs.op = "resolve" /\ obs.ok /\ obs.key = "WiredDesc") =>
    obs.val.args = << GetService(Heap, conts[obs.c], "a", MaxDepth).val,
                      GetService(Heap, conts[obs.c], "b", MaxDepth).val >>

\* Resolve ran on a class whose markers were recorded in ascending order:
\* the instance received (get("b"), get("a")).
C11_Witness ==
  /\ obs.op = "resolve" /\ obs.ok /\ obs.key = "WiredAsc"
  /\ obs.val.args = << GetService(Heap, conts[obs.c], "b", MaxDepth).val,
                       GetService(Heap, conts[obs.c], "a", MaxDepth).val >>
  /\ obs.val.args[1] # obs.val.args[2]

(***************************************************************************)
(* SpecBatch: get with a list of keys, on the container built from X,      *)
(* which is disposed now and then.                                         *)
(***************************************************************************)
BatchConfigurations ==
  { << RegisterCall("a", FnInput("F1")), RegisterCall("b", FnInput("F1")) >>,
    << RegisterCall("a", ValueInput("v1")), RegisterCall("b", FnInput("F2")) >>,
    << RegisterCall("a", FnInput("F1")) >>,
    << RegisterCall("b", FnInput("F2")) >> }

Alternate(n) == [i \in 1..n |-> IF i % 2 = 1 THEN "a" ELSE "b"]

\* Key lists of 0, 1, 2, 3, 10 and 11 keys.
KeyLists ==
  {Alternate(n) : n \in {0, 1, BatchMin, BatchMin + 1, BatchMax, BatchMax + 1}}
    \cup {<<"b", "a">>}

InitBatch == \E body \in BatchConfigurations :
               InitHeap(ConfigureServices(EmptyCollection, body))

NextBatch ==
  \/ conts = << >> /\ BuildContainer("X")
  \/ \E c \in ContIds, key \in Keys : Get(c, key)
  \/ \E c \in ContIds, keys \in KeyLists : GetAll(c, keys)
  \/ \E c \in ContIds : Dispose(c)

SpecBatch == InitBatch /\ [][NextBatch]_vars

\* The positions of the keys of a list that no container on the chain of c
\* holds.
Unheld(c, keys) == {i \in 1..Len(keys) : Holder(c, keys[i]) = 0}

First(S) == CHOOSE i \in S : \A j \in S : i <= j

\* C12: a get with a list of 2..10 keys
\*   succeeds exactly when every key is held on the chain, and then returns
\*     one value per key, the i-th being what the single-key get of the
\*     i-th key returns;
\*   makes the instances it creates in the order in which their keys first
\*     occur in the list;
\*   fails, when some key is not held, with the error of the first such
\*     key: every key before it is resolved and cached, and the record of
\*     every key that occurs only after it is left as it was.
C12_BatchInOrder ==
  [][(obs'.op = "getAll" /\ Len(obs'.keys) \in BatchMin..BatchMax) =>
       LET c    == conts[obs'.c]
           keys == obs'.keys
           bad  == Unheld(obs'.c, keys)
           after == [deps |-> deps', calls |-> calls', arrays |-> arrays',
                     maps |-> maps', conts |-> conts']
       IN
       /\ obs'.ok <=> bad = {}
       /\ obs'.ok =>
            /\ obs'.val.t = "array"
            /\ Len(obs'.val.items) = Len(keys)
            /\ \A i \in 1..Len(keys) :
                 obs'.val.items[i] = GetService(after, c, keys[i], MaxDepth).val
            /\ \A i, j \in 1..Len(keys) :
                 LET x == obs'.val.items[i]
                     y == obs'.val.items[j]
                 IN  (/\ i < j /\ x.t = "object" /\ y.t = "object"
                      /\ x.id = y.id /\ x # y
                      /\ \A k \in 1..(j - 1) : keys[k] # keys[j]
                      /\ x.n > calls[x.id] /\ y.n > calls[y.id]) => x.n < y.n
       /\ ~obs'.ok =>
            /\ obs'.val = Unrecognized(keys[First(bad)])
            /\ \A i \in 1..Len(keys) :
                 LET h == Holder(obs'.c, keys[i]) IN
                 /\ i < First(bad) => IsResolved(deps'[h])
                 /\ (/\ i > First(bad) /\ h # 0
                     /\ \A j \in 1..First(bad) : keys[j] # keys[i]) =>
                      deps'[h] = deps[h]
    ]_vars

\* A list whose second key is held nowhere: the first key was resolved by
\* the call, which then failed.
C12_Witness ==
  /\ obs.op = "getAll" /\ ~obs.ok
  /\ Len(obs.keys) = BatchMin + 1
  /\ obs.val = Unrecognized("b")
  /\ obs.made # NoCalls
  /\ IsResolved(deps[Holder(obs.c, "a")])

\* C13: a get with a list of fewer than 2 or more than 10 keys fails with
\* the error `Unsupported overload` and changes no record, hash or counter.
C13_UnsupportedBatchSize ==
  [][(obs'.op = "getAll" /\ Len(obs'.keys) \notin BatchMin..BatchMax) =>
       /\ ~obs'.ok
       /\ obs'.val = UnsupportedOverload
       /\ deps' = deps /\ arrays' = arrays /\ maps' = maps
       /\ conts' = conts /\ calls' = calls /\ hooks' = hooks
    ]_vars

\* Eleven keys, all held and none resolved: the call failed.
C13_Witness ==
  /\ obs.op = "getAll" /\ ~obs.ok
  /\ Len(obs.keys) = BatchMax + 1
  /\ obs.val = UnsupportedOverload
  /\ \A k \in Keys : /\ Holder(obs.c, k) # 0
                     /\ ~IsResolved(deps[Holder(obs.c, k)])

(***************************************************************************)
(* SpecBoot: containers made by createContainer from lists of modules, and *)
(* keys resolved on them.                                                  *)
(***************************************************************************)
ModuleLists ==
  { << >>,
    << << RegisterCall("a", ValueInput("v1")), RegisterCall("b", ValueInput("v2")) >>,
       << UseCall("a", "PolicyA") >> >>,
    << << AddCall(Activators, "ActivatorA") >>,
       << RegisterCall("a", ValueInput("v1")) >>,
       << AddCall(Activators, "ActivatorB"), RegisterCall("a", ValueInput("v2")) >> >>,
    << << AddCall(Activators, "ActivatorB") >> >> }

NextBoot ==
  \/ \E modules \in ModuleLists, opt \in BootOptions :
       CreateContainer(modules, opt)
  \/ \E c \in ContIds, key \in AllKeys : Get(c, key)

SpecBoot == InitColl /\ [][NextBoot]_vars

\* The calls made by the modules of a list, in the order of the list.
RECURSIVE Flatten(_)
Flatten(modules) ==
  IF modules = << >> THEN << >> ELSE Head(modules) \o Flatten(Tail(modules))

\* C14: createContainer completes, whatever the options, and the container
\* it returns holds exactly the keys that the modules registered: a key
\* registered with register / use resolves to what the last module that
\* registered it provided, and a key added to by several modules resolves
\* to one element per add call, in the order of the module list (every
\* module ran once, in list order, on the same collection).
C14_ModulesConfigured ==
  obs.op = "createContainer" =>
    /\ obs.ok
    /\ \A k \in AllKeys :
         LET cs == CallsUnder(Flatten(obs.val.modules), k)
             r  == GetService(Heap, conts[obs.c], k, MaxDepth)
         IN  IF cs # << >>
               THEN Local(obs.c, k) # 0 /\ r.ok /\ YieldsAll(cs, r.val)
               ELSE Local(obs.c, k) = 0 /\ ~r.ok

\* Three modules, no activators run: key a resolves to the value of the
\* third module and the activators to those of the first and the third.
C14_Witness ==
  /\ obs.op = "createContainer" /\ obs.ok
  /\ Len(obs.val.modules) = 3
  /\ obs.val.options = [given |-> TRUE, runActivators |-> FALSE]
  /\ GetService(Heap, conts[obs.c], "a", MaxDepth).val = Const("v2")
  /\ Len(arrays[deps[Local(obs.c, Activators)].values]) = 2

\* The objects whose activate() the last createContainer invoked.
Activated == SubSeq(activated, obs.val.before + 1, Len(activated))

\* C15: when createContainer is called with runActivators true or without
\* options, it invokes activate() once on one instance per add call made
\* under the reserved key, in the order of the calls, and get(activators)
\* on the returned container returns those instances; with runActivators
\* false it invokes no activate().  No object is activated twice.
C15_ActivatorsRun ==
  /\ \A i, j \in 1..Len(activated) : i # j => activated[i] # activated[j]
  /\ obs.op = "createContainer" =>
       LET regs == CallsUnder(Flatten(obs.val.modules), Activators)
           opt  == obs.val.options
       IN  IF ~opt.given \/ opt.runActivators
             THEN /\ Len(Activated) = Len(regs)
                  /\ \A i \in 1..Len(regs) : Yields(regs[i], Activated[i])
                  /\ regs # << >> =>
                       GetService(Heap, conts[obs.c], Activators, MaxDepth).val
                         = List(Activated)
             ELSE Activated = << >>

\* createContainer was called without options on modules that register
\* two activators: both were activated, in registration order.
C15_Witness ==
  /\ obs.op = "createContainer" /\ obs.ok
  /\ ~obs.val.options.given
  /\ Len(Activated) = 2
  /\ Activated[1].id = "ActivatorA" /\ Activated[2].id = "ActivatorB"

(***************************************************************************)
(* InteractionContext.  A context is an object [services, cls, container,  *)
(* classUnderTest]: the hash of its collection, the constructor under test *)
(* and the _value fields of its two Lazy objects (Undef = not created; the *)
(* value of _container is a reference to a container).  Its fields last,   *)
(* source, dropped and handed are history: the instance returned by the    *)
(* last read of classUnderTest and the values returned by mockFor, both    *)
(* since the last read of `services` by the user; the container from which *)
(* the cached instance was resolved; the containers that were cached when  *)
(* `services` was read.  overrides counts the registrations made through   *)
(* `services`.                                                             *)
(***************************************************************************)
MaxOverrides == 1

\* mock<any>(undefined, { deep: true }): a new object on every call, named
\* after the record that will hold it.
Mock(n) == "mock" \o ToString(n)

\* services.singleton(key, value): the value is registered under the key.
CollSingleton(cs, key, v) == CollRegister(cs, key, ValueInput(v))

\* A variant of the loop over the metadata that stops after one entry.
RegisterStandInsFirstOnly(cs, metadata) ==
  IF metadata = << >> THEN cs
  ELSE CollSingleton(cs, Head(metadata).dependencyKey, Mock(Len(cs.deps) + 1))

\* metadata.forEach(({ dependencyKey }) => services.singleton(dependencyKey, mock()))
RECURSIVE RegisterStandIns(_, _)
RegisterStandIns(cs, metadata) ==
  IF metadata = << >> THEN cs
  ELSE RegisterStandIns(
         CollSingleton(cs, Head(metadata).dependencyKey, Mock(Len(cs.deps) + 1)),
         Tail(metadata))

\* A reference to a container, as held by a Lazy<IServiceContainer>.
Ref(c) == [t |-> "container", c |-> c]

\* new InteractionContext(services, constructor)
InteractionContext(services, cls) ==
  [services |-> services, cls |-> cls,
   container |-> Undef, classUnderTest |-> Undef,
   last |-> None, source |-> 0, dropped |-> {}, overrides |-> 0,
   handed |-> [k \in Keys |-> None]]

\* A variant of isValueCreated that never finds a value.
IsValueCreatedNever(v) == FALSE

\* Lazy.isValueCreated: typeof this._value !== 'undefined'
IsValueCreated(v) == v # Undef

\* A variant of the getter that resets the container only.
ServicesKeepsInstance(ctx) == [ctx EXCEPT !.container = Undef]

\* get services(): this._container.reset(); this._classUnderTest.reset()
ServicesOf(ctx) ==
  [ctx EXCEPT !.container = Undef, !.classUnderTest = Undef]

\* get container(): this._container.value, whose factory is
\* () => this.services.buildContainer().  The result is [st, ctx, c].
ContainerValue(st, ctx) ==
  IF IsValueCreated(ctx.container)
    THEN [st |-> st, ctx |-> ctx, c |-> ctx.container.c]
    ELSE LET c == Len(st.conts) + 1 IN
         [st  |-> [st EXCEPT !.conts =
                     Append(@, ServiceContainer(ctx.services, 0))],
          ctx |-> [ServicesOf(ctx) EXCEPT !.container = Ref(c)],
          c   |-> c]

\* get classUnderTest(): this._classUnderTest.value, whose factory is
\* () => this.container.resolve(constructor).  The result is [st, ctx, ok, val].
ClassUnderTestValue(st, ctx) ==
  IF IsValueCreated(ctx.classUnderTest)
    THEN [st |-> st, ctx |-> ctx, ok |-> TRUE, val |-> ctx.classUnderTest]
    ELSE LET cv == ContainerValue(st, ctx)
             r  == InvokeFactory(cv.st, AutoFactory(ctx.cls),
                                 cv.st.conts[cv.c], MaxDepth)
         IN  [st  |-> r.st,
              ctx |-> IF r.ok
                        THEN [cv.ctx EXCEPT !.classUnderTest = r.val,
                                            !.source = cv.c]
                        ELSE cv.ctx,
              ok  |-> r.ok, val |-> r.val]

\* The history of a read of `services` by the user.
AfterServices(before, ctx) ==
  [ctx EXCEPT !.last = None, !.handed = [k \in Keys |-> None],
              !.dropped = IF IsValueCreated(before.container)
                            THEN @ \cup {before.container.c} ELSE @]

ContextIds == 1..Len(contexts)

\* createInteractionContext(constructor)
CreateInteractionContext(cls) ==
  LET cs == RegisterStandIns(
              [m |-> EmptyMap, deps |-> deps, arrays |-> arrays, ok |-> TRUE],
              Metadata(cls))
  IN  /\ deps' = cs.deps
      /\ maps' = Append(maps, cs.m)
      /\ contexts' = Append(contexts, InteractionContext(Len(maps) + 1, cls))
      /\ obs' = Obs("createInteractionContext", 0, "", cls, TRUE,
                    [x |-> Len(contexts) + 1, v |-> Undef])
      /\ UNCHANGED <<arrays, colls, conts, calls, hooks, seen, added, activated, stacks>>

\* context.services
Services(x) ==
  /\ contexts' = [contexts EXCEPT
                    ![x] = AfterServices(contexts[x], ServicesOf(contexts[x]))]
  /\ obs' = Obs("services", 0, "", "", TRUE, [x |-> x, v |-> Undef])
  /\ UNCHANGED <<deps, arrays, maps, colls, conts, calls, hooks, seen, added,
                 activated, stacks>>

\* context.services.register(key, value)
ServicesRegister(x, key, in) ==
  LET ctx == ServicesOf(contexts[x])
      cs  == CollRegister([m |-> maps[ctx.services], deps |-> deps,
                           arrays |-> arrays, ok |-> TRUE], key, in)
  IN  /\ contexts[x].overrides < MaxOverrides
      /\ deps' = cs.deps
      /\ maps' = [maps EXCEPT ![ctx.services] = cs.m]
      /\ contexts' = [contexts EXCEPT
                        ![x] = [AfterServices(contexts[x], ctx) EXCEPT
                                  !.overrides = @ + 1]]
      /\ obs' = Obs("servicesRegister", 0, "", key, TRUE, [x |-> x, v |-> Undef])
      /\ UNCHANGED <<arrays, colls, conts, calls, hooks, seen, added, activated, stacks>>

\* context.container
Container(x) ==
  LET cv == ContainerValue(Heap, contexts[x]) IN
  /\ Len(cv.st.conts) <= MaxConts
  /\ conts' = cv.st.conts
  /\ contexts' = [contexts EXCEPT ![x] = cv.ctx]
  /\ obs' = Obs("container", cv.c, "", "", TRUE, [x |-> x, v |-> Ref(cv.c)])
  /\ UNCHANGED <<deps, arrays, maps, colls, calls, hooks, seen, added, activated, stacks>>

\* context.classUnderTest
ClassUnderTest(x) ==
  LET r == ClassUnderTestValue(Heap, contexts[x]) IN
  /\ Len(r.st.conts) <= MaxConts
  /\ CallCount(r.st.calls, DOMAIN calls) <= MaxCalls
  /\ deps' = r.st.deps
  /\ calls' = r.st.calls
  /\ conts' = r.st.conts
  /\ contexts' = [contexts EXCEPT
                    ![x] = IF r.ok THEN [r.ctx EXCEPT !.last = r.val] ELSE r.ctx]
  /\ obs' = [Obs("classUnderTest", 0, "", contexts[x].cls, r.ok,
                 [x |-> x, v |-> r.val]) EXCEPT
               !.made = [f \in DOMAIN calls |-> r.st.calls[f] - calls[f]]]
  /\ UNCHANGED <<arrays, maps, colls, hooks, seen, added, activated, stacks>>

\* context.mockFor(key): this.container.get(key)
MockFor(x, key) ==
  LET cv == ContainerValue(Heap, contexts[x])
      r  == GetService(cv.st, cv.st.conts[cv.c], key, MaxDepth)
  IN  /\ Len(r.st.conts) <= MaxConts
      /\ CallCount(r.st.calls, DOMAIN calls) <= MaxCalls
      /\ deps' = r.st.deps
      /\ calls' = r.st.calls
      /\ conts' = r.st.conts
      /\ contexts' = [contexts EXCEPT
                        ![x] = IF r.ok THEN [cv.ctx EXCEPT !.handed[key] = r.val]
                               ELSE cv.ctx]
      /\ obs' = Obs("mockFor", cv.c, "", key, r.ok, [x |-> x, v |-> r.val])
      /\ UNCHANGED <<arrays, maps, colls, hooks, seen, added, activated, stacks>>

(***************************************************************************)
(* SpecContext: one context made by createInteractionContext (the         *)
(* beforeEach of a test) and read through its accessors.                   *)
(***************************************************************************)
TestedClasses == WiredClasses \cup {"PolicyA"}
ContextInputs == {ValueInput("v1"), FnInput("F1")}

NextContext ==
  \/ \E cls \in TestedClasses :
       contexts = << >> /\ CreateInteractionContext(cls)
  \/ \E x \in ContextIds : Services(x)
  \/ \E x \in ContextIds, key \in Keys, in \in ContextInputs :
       ServicesRegister(x, key, in)
  \/ \E x \in ContextIds : Container(x)
  \/ \E x \in ContextIds : ClassUnderTest(x)
  \/ \E x \in ContextIds, key \in Keys : MockFor(x, key)

SpecContext == InitColl /\ [][NextContext]_vars

\* C16: creating the context constructs nothing; a read of classUnderTest
\* that is the first since the context was made (or since `services` was
\* last read) constructs the class under test exactly once and returns the
\* new instance; every other read returns the instance of the read before
\* it and constructs nothing.
C16_LazyOnce ==
  [][ /\ obs'.op = "createInteractionContext" => calls' = calls
      /\ (obs'.op = "classUnderTest" /\ obs'.ok) =>
           LET ctx == contexts[obs'.val.x]
               v   == obs'.val.v
           IN  IF ctx.last = None
                 THEN /\ obs'.made[ctx.cls] = 1
                      /\ v.t = "object" /\ v.id = ctx.cls
                      /\ v.n = calls'[ctx.cls]
                 ELSE v = ctx.last /\ calls' = calls ]_vars

\* A second read of classUnderTest returned the one instance made so far.
C16_Witness ==
  /\ obs.op = "classUnderTest" /\ obs.ok
  /\ obs.made = NoCalls
  /\ calls[obs.key] = 1
  /\ obs.val.v = Obj(obs.key, 1, obs.val.v.args)

\* C17: a read of `services` leaves both the container and the instance of
\* the class under test not created; the read of `container` that follows
\* builds a new container on the context's collection, and the read of
\* classUnderTest that follows constructs a new instance; a cached instance
\* always comes with a cached container, the one it was resolved from,
\* which is none of the containers discarded by a read of `services`.
C17_ServicesResets ==
  /\ [](\A x \in ContextIds :
          LET ctx == contexts[x] IN
          /\ ctx.container # Undef => ctx.container.c \notin ctx.dropped
          /\ ctx.classUnderTest # Undef =>
               /\ ctx.container # Undef
               /\ ctx.container.c = ctx.source)
  /\ [][ /\ obs'.op \in {"services", "servicesRegister"} =>
              /\ contexts'[obs'.val.x].container = Undef
              /\ contexts'[obs'.val.x].classUnderTest = Undef
         /\ (obs'.op = "container" /\ contexts[obs'.val.x].container = Undef) =>
              /\ obs'.c = Len(conts) + 1
              /\ conts' = Append(conts,
                   ServiceContainer(contexts[obs'.val.x].services, 0))
         /\ (/\ obs'.op = "classUnderTest" /\ obs'.ok
             /\ contexts[obs'.val.x].classUnderTest = Undef) =>
              /\ obs'.made[obs'.key] = 1
              /\ contexts'[obs'.val.x].classUnderTest = obs'.val.v
              /\ \A y \in ContextIds :
                   contexts[y].last # None => obs'.val.v # contexts[y].last ]_vars

\* After a read of `services` discarded the first container, the class under
\* test was constructed a second time, from the second container.
C17_Witness ==
  /\ obs.op = "classUnderTest" /\ obs.ok
  /\ contexts[obs.val.x].dropped = {1}
  /\ contexts[obs.val.x].source = 2
  /\ calls[obs.key] = 2

\* The keys of the metadata of a class.
MetadataKeys(cls) ==
  {Metadata(cls)[i].dependencyKey : i \in 1..Len(Metadata(cls))}

\* C18: createInteractionContext registers under every key of the metadata,
\* and under no other key, a value of its own making, one per key; and
\* whenever the class under test is cached, each constructor argument that
\* was resolved for a key is the value that mockFor(key) returned before
\* the construction (if it was called) and returns after it.
C18_StandIns ==
  /\ obs.op = "createInteractionContext" =>
       LET m == maps[contexts[obs.val.x].services] IN
       /\ \A k \in AllKeys : m[k] # 0 <=> k \in MetadataKeys(obs.key)
       /\ \A k \in MetadataKeys(obs.key) :
            /\ deps[m[k]].type = "cfg"
            /\ deps[m[k]].value.t = "const"
            /\ deps[m[k]].value.id \notin UserValues
            /\ \A j \in MetadataKeys(obs.key) :
                 j # k => deps[m[j]].value # deps[m[k]].value
  /\ \A x \in ContextIds :
       LET ctx == contexts[x]
           ms  == Reverse(Metadata(ctx.cls))
       IN  (ctx.classUnderTest # Undef /\ ctx.container # Undef) =>
             \A i \in 1..Len(ms) :
               LET k == ms[i].dependencyKey IN
               /\ ctx.handed[k] # None =>
                    ctx.classUnderTest.args[i] = ctx.handed[k]
               /\ GetService(Heap, conts[ctx.container.c], k, MaxDepth).val
                    = ctx.classUnderTest.args[i]

\* mockFor("a") and mockFor("b") were read before classUnderTest, which was
\* then constructed with the two stand-ins.
C18_Witness ==
  /\ obs.op = "classUnderTest" /\ obs.ok /\ obs.made[obs.key] = 1
  /\ contexts[obs.val.x].overrides = 0
  /\ contexts[obs.val.x].handed["a"] # None
  /\ contexts[obs.val.x].handed["b"] # None
  /\ contexts[obs.val.x].handed["a"] # contexts[obs.val.x].handed["b"]
  /\ \E i, j \in 1..2 :
       /\ obs.val.v.args[i] = contexts[obs.val.x].handed["a"]
       /\ obs.val.v.args[j] = contexts[obs.val.x].handed["b"]

(***************************************************************************)
(* SpecReplace: one ConfiguredDependency made with `new`, then replaced    *)
(* and resolved directly, as the tests of replaceValue do.  The val of obs *)
(* carries the history of the record: the argument of the last             *)
(* replaceValue (x, None before the first), the invocation counts at that  *)
(* call (at) and whether the record held a value when it was made (held).  *)
(***************************************************************************)
\* replaceValue(value)
ReplaceValue(d, in) ==
  IF in.fn
    THEN [d EXCEPT !.factory = UserFactory(in.id)]
    ELSE [d EXCEPT !.factory = ConstFactory(in.id), !.value = Const(in.id)]

\* new ConfiguredDependency(key, value)
NewDependency(key, in) ==
  /\ deps' = Append(deps, ConfiguredDependency(key, in))
  /\ obs' = Obs("new", 0, "", key, TRUE,
                [v |-> Undef, x |-> None, at |-> NoCalls, held |-> FALSE])
  /\ UNCHANGED <<arrays, maps, colls, conts, calls, hooks, seen, added,
                 activated, contexts, stacks>>

\* dependency.replaceValue(value)
DepReplaceValue(id, in) ==
  /\ deps' = [deps EXCEPT ![id] = ReplaceValue(@, in)]
  /\ obs' = Obs("replaceValue", 0, "", deps[id].key, TRUE,
                [v |-> Undef, x |-> in, at |-> calls,
                 held |-> deps[id].value # Undef])
  /\ UNCHANGED <<arrays, maps, colls, conts, calls, hooks, seen, added,
                 activated, contexts, stacks>>

\* dependency.resolveValue(container)
DepResolveValue(id, c) ==
  LET r == ResolveValue(Heap, id, conts[c], MaxDepth) IN
  /\ CallCount(r.st.calls, DOMAIN calls) <= MaxCalls
  /\ deps' = r.st.deps
  /\ calls' = r.st.calls
  /\ obs' = Obs("resolveValue", c, "", deps[id].key, r.ok,
                [obs.val EXCEPT !.v = r.val])
  /\ UNCHANGED <<arrays, maps, colls, conts, hooks, seen, added, activated,
                 contexts, stacks>>

NextReplace ==
  \/ conts = << >> /\ BuildContainer("X")
  \/ \E key \in Keys, in \in Inputs :
       conts # << >> /\ deps = << >> /\ NewDependency(key, in)
  \/ \E id \in 1..Len(deps), in \in Inputs : DepReplaceValue(id, in)
  \/ \E id \in 1..Len(deps), c \in ContIds : DepResolveValue(id, c)

SpecReplace == InitColl /\ [][NextReplace]_vars

\* What C19 asks of a resolveValue that follows replaceValue(x): it returns
\* x, and nothing was invoked, when x is not a function; it returns the
\* result of the one invocation of x made since the replacement, and no
\* other function was invoked since, when x is a function.
UsesProvided ==
  LET x == obs.val.x
      v == obs.val.v
  IN  /\ obs.ok
      /\ IF x.fn
           THEN /\ v.t = "object" /\ v.id = x.id
                /\ v.n = obs.val.at[x.id] + 1
                /\ calls = [obs.val.at EXCEPT ![x.id] = @ + 1]
           ELSE v = Const(x.id) /\ calls = obs.val.at

\* C19: after replaceValue(x) on a record, whatever the state of the
\* record before the call, every resolveValue uses what was provided.
C19_UsesProvided ==
  (obs.op = "resolveValue" /\ obs.val.x # None) => UsesProvided

\* The part of C19 that the code keeps: replaceValue(x) on a record that
\* holds no value, or with an x that is not a function.
C19_UsesProvidedWhenUnresolved ==
  (/\ obs.op = "resolveValue" /\ obs.val.x # None
   /\ ~obs.val.held \/ ~obs.val.x.fn) => UsesProvided

\* A record made with the value v1 was given the factory F1 by
\* replaceValue and then resolved: it returned v1 and F1 was not invoked.
C19_Witness ==
  /\ obs.op = "resolveValue" /\ obs.ok
  /\ obs.val.x = FnInput("F1") /\ obs.val.held
  /\ obs.val.v = Const("v1")
  /\ calls["F1"] = 0

\* The containers made by createChildContainer.
Children == {c \in ContIds : conts[c].parent # 0}

\* C20: for a multi-binding key K that was unresolved in the parent when
\* the child was forked (the child holds its own record for K), the
\* instances that get(K) returned on the child and those that get(K)
\* returned on the parent are distinct objects, whichever of the two
\* resolved K first.
C20_NoMultiBindingAliasing ==
  \A c \in Children, k \in Keys :
    LET p == conts[c].parent IN
    (/\ Local(c, k) # 0 /\ deps[Local(c, k)].type = "arr"
     /\ seen[c][k].t = "array" /\ seen[p][k].t = "array") =>
      \A i \in 1..Len(seen[c][k].items), j \in 1..Len(seen[p][k].items) :
        seen[c][k].items[i].t = "object" =>
          seen[c][k].items[i] # seen[p][k].items[j]

\* The child resolved the multi-binding key first; the parent's get then
\* returned the child's instances without invoking any factory.
C20_Witness ==
  /\ obs.op = "get" /\ obs.ok /\ obs.made = NoCalls
  /\ obs.c \notin Children
  /\ \E c \in Children :
       /\ conts[c].parent = obs.c
       /\ Local(c, obs.key) # 0 /\ deps[Local(c, obs.key)].type = "arr"
       /\ obs.val.t = "array" /\ Len(obs.val.items) = 2
       /\ seen[c][obs.key] = obs.val

(***************************************************************************)
(* SpecDispose: one container, built from a collection that holds falsy    *)
(* values, disposable instances and multi-binding records, is resolved and *)
(* disposed.                                                               *)
(***************************************************************************)
DisposeConfigurations ==
  { << RegisterCall("a", ValueInput("zero")), RegisterCall("b", FnInput("F1")) >>,
    << AddCall("a", "PolicyA"), AddDependencyCall("a", FnInput("F1")) >>,
    << RegisterCall("a", FnInput("F1")), RegisterCall("b", FnInput("F2")) >>,
    << RegisterCall("a", ValueInput("v1")), AddDependencyCall("b", FnInput("F1")) >> }

InitDispose == \E body \in DisposeConfigurations :
                 InitHeap(ConfigureServices(EmptyCollection, body))

NextDispose ==
  \/ conts = << >> /\ BuildContainer("X")
  \/ \E c \in ContIds, key \in Keys : Get(c, key)
  \/ \E c \in ContIds : Dispose(c)

SpecDispose == InitDispose /\ [][NextDispose]_vars

\* The records whose cached value belongs to record id: the record itself,
\* or the entries of a multi-binding record.
Cells(id) ==
  IF deps[id].type = "cfg" THEN {id}
  ELSE {arrays[deps[id].values][i] : i \in 1..Len(arrays[deps[id].values])}

\* Record id counts as resolved: it holds a value, or it is a multi-binding
\* record that has been resolved.
Resolved(ds, id) ==
  IF ds[id].type = "cfg" THEN ds[id].value # Undef ELSE ds[id].resolved

\* C21: dispose() on container c, for every record held by c that was
\* resolved before the call: the record is not resolved afterwards, the
\* values cached by it (by its entries, for a multi-binding record) are
\* cleared, and each of those values that exposes dispose() received
\* exactly one more dispose() call.
C21_DisposeAllAlike ==
  [][ obs'.op = "dispose" =>
        \A k \in Keys :
          LET id == Local(obs'.c, k) IN
          (id # 0 /\ Resolved(deps, id)) =>
            /\ ~Resolved(deps', id)
            /\ \A e \in Cells(id) :
                 /\ deps'[e].value = Undef
                 /\ HasDispose(deps[e].value) =>
                      HookCount(hooks', deps[e].value)
                        = HookCount(hooks, deps[e].value) + 1 ]_vars

\* The part of C21 that the code keeps: single records whose cached value
\* is truthy.
C21_DisposeTruthySingles ==
  [][ obs'.op = "dispose" =>
        \A k \in Keys :
          LET id == Local(obs'.c, k) IN
          (id # 0 /\ deps[id].type = "cfg" /\ Truthy(deps[id].value)) =>
            /\ deps'[id].value = Undef
            /\ HasDispose(deps[id].value) =>
                 HookCount(hooks', deps[id].value)
                   = HookCount(hooks, deps[id].value) + 1 ]_vars

\* dispose() ran on a container holding a resolved multi-binding record
\* with a disposable instance: the record is still resolved, the instance
\* is still cached and its dispose() was never called.
C21_Witness ==
  /\ obs.op = "dispose"
  /\ \E k \in Keys :
       LET id == Local(obs.c, k) IN
       /\ id # 0 /\ deps[id].type = "arr" /\ deps[id].resolved
       /\ \E e \in Cells(id) :
            HasDispose(deps[e].value) /\ HookCount(hooks, deps[e].value) = 0

\* dispose() ran on a container holding the value 0 under a key: the record
\* still holds it.
C21_WitnessFalsy ==
  /\ obs.op = "dispose"
  /\ \E k \in Keys :
       /\ Local(obs.c, k) # 0
       /\ deps[Local(obs.c, k)].value = Const("zero")

(***************************************************************************)
(* SpecThrow: one container built from a collection in which a user        *)
(* function throws: under a single record, as the second of three entries  *)
(* of a multi-binding record, and as a dependency of an auto-wired class.  *)
(***************************************************************************)
ThrowConfigurations ==
  { << RegisterCall("a", FnInput("F3")), RegisterCall("b", FnInput("F1")) >>,
    << AddDependencyCall("a", FnInput("F1")), AddDependencyCall("a", FnInput("F3")),
       AddDependencyCall("a", FnInput("F2")) >>,
    << RegisterCall("a", FnInput("F3")), UseCall("b", "WiredDesc") >>,
    << RegisterCall("a", FnInput("F1")), AddDependencyCall("b", FnInput("F3")) >> }

InitThrow == \E body \in ThrowConfigurations :
               InitHeap(ConfigureServices(EmptyCollection, body))

NextThrow ==
  \/ conts = << >> /\ BuildContainer("X")
  \/ \E c \in ContIds, key \in Keys : Get(c, key)
  \/ \E c \in ContIds : CreateChildContainer(c)
  \/ \E c \in ContIds : Dispose(c)

SpecThrow == InitThrow /\ [][NextThrow]_vars

\* The entries of multi-binding record id that follow its first entry
\* whose factory is a throwing function.
AfterFailing(id) ==
  LET es == arrays[deps[id].values]
      bad == {i \in 1..Len(es) : deps[es[i]].factory.id \in ThrowingFns}
  IN  {es[i] : i \in {j \in 1..Len(es) : \E b \in bad : b < j}}

\* C22: a get(K) that fails with the error of a user function yields that
\* very error, and K's record (held by the container or by an ancestor) is
\* not resolved afterwards; for a multi-binding record the entries after
\* the first failing one hold no value.
C22_FailureLeavesUnresolved ==
  (/\ obs.op = "get" /\ ~obs.ok /\ obs.val.id = "thrown"
   /\ Holder(obs.c, obs.key) # 0) =>
    LET id == Holder(obs.c, obs.key) IN
    /\ obs.val = UserError(obs.val.key) /\ obs.val.key \in ThrowingFns
    /\ calls[obs.val.key] >= 1
    /\ ~Resolved(deps, id)
    /\ deps[id].type = "arr" =>
         \A e \in AfterFailing(id) : deps[e].value = Undef

\* The part of C22 that the code keeps: single records, and the entries of
\* a multi-binding record after the failing one.
C22_SingleLeftUnresolved ==
  (/\ obs.op = "get" /\ ~obs.ok /\ obs.val.id = "thrown"
   /\ Holder(obs.c, obs.key) # 0) =>
    LET id == Holder(obs.c, obs.key) IN
    /\ obs.val = UserError(obs.val.key) /\ obs.val.key \in ThrowingFns
    /\ deps[id].type = "cfg" => ~Resolved(deps, id)
    /\ deps[id].type = "arr" =>
         \A e \in AfterFailing(id) : deps[e].value = Undef

\* get failed on a multi-binding key whose second entry throws: the record
\* is marked resolved, its first entry holds an instance, its third none.
C22_Witness ==
  /\ obs.op = "get" /\ ~obs.ok /\ obs.val = UserError("F3")
  /\ Local(obs.c, obs.key) # 0
  /\ LET d == deps[Local(obs.c, obs.key)] IN
     /\ d.type = "arr" /\ d.resolved
     /\ Len(arrays[d.values]) = 3
     /\ deps[arrays[d.values][1]].value # Undef
     /\ deps[arrays[d.values][3]].value = Undef

(***************************************************************************)
(* SpecSnapshot: a container is built from collection X, and X is then     *)
(* configured further: register, use, add, addDependency, import of Y.     *)
(***************************************************************************)
MaxRecords == 3

CollOps == {"register", "use", "add", "addDependency", "import"}

NextSnapshot ==
  \/ conts = << >> /\ BuildContainer("X")
  \/ \E key \in Keys, in \in {ValueInput("v2"), FnInput("F2")} :
       Len(deps) < MaxRecords /\ Register("X", key, in)
  \/ \E key \in Keys : Len(deps) < MaxRecords /\ Use("X", key, "PolicyB")
  \/ \E key \in Keys : Len(deps) < MaxRecords /\ Add("X", key, "PolicyA")
  \/ \E key \in Keys :
       Len(deps) < MaxRecords /\ AddDependency("X", key, ValueInput("v1"))
  \/ Import("X", "Y")
  \/ \E c \in ContIds, key \in Keys : Get(c, key)

SpecSnapshot == InitImport /\ [][NextSnapshot]_vars

\* What get(k) on container c would do in the current state.
WouldGet(c, k) == GetService(Heap, conts[c], k, MaxDepth)

\* C23: the container returned by buildContainer() holds exactly the keys
\* the collection holds at the call, and no register, use, add,
\* addDependency or import performed on a collection changes, for any
\* container and key, whether get(key) succeeds or what it returns.
C23_BuildSnapshots ==
  [][ /\ obs'.op = "buildContainer" =>
           \A k \in Keys :
             maps'[conts'[obs'.c].values][k] # 0
               <=> maps[colls[obs'.col]][k] # 0
      /\ obs'.op \in CollOps =>
           \A c \in ContIds, k \in Keys :
             /\ WouldGet(c, k)'.ok = WouldGet(c, k).ok
             /\ WouldGet(c, k)'.val = WouldGet(c, k).val ]_vars

\* The part of C23 that the code keeps: the keys at the call, and import.
C23_ImportLeavesContainer ==
  [][ /\ obs'.op = "buildContainer" =>
           \A k \in Keys :
             maps'[conts'[obs'.c].values][k] # 0
               <=> maps[colls[obs'.col]][k] # 0
      /\ obs'.op = "import" =>
           \A c \in ContIds, k \in Keys :
             /\ WouldGet(c, k)'.ok = WouldGet(c, k).ok
             /\ WouldGet(c, k)'.val = WouldGet(c, k).val ]_vars

\* register ran on the collection after the container was built from it,
\* and the container holds the record it made.
C23_Witness ==
  /\ obs.op = "register"
  /\ \E c \in ContIds :
       /\ conts[c].values = colls[obs.col]
       /\ Local(c, obs.key) = Len(deps)

(***************************************************************************)
(* SpecShared: several containers built from the collections X and Y,      *)
(* which may import each other; keys are resolved, destroyed and disposed  *)
(* on each container.                                                      *)
(***************************************************************************)
NextShared ==
  \/ \E col \in Collections : BuildContainer(col)
  \/ \E x, y \in Collections : x # y /\ conts = << >> /\ Import(x, y)
  \/ \E c \in ContIds, key \in Keys : Get(c, key)
  \/ \E c \in ContIds : Dispose(c)
  \/ \E c \in ContIds, key \in Keys : Destroy(c, key)

SpecShared == InitImport /\ [][NextShared]_vars

\* C24: get, destroy and dispose on a built container leave every other
\* built container as it was: each record the other one holds keeps its
\* resolved state and its cached values, and no value cached there
\* receives a dispose() call.
C24_ExclusiveRecords ==
  [][ obs'.op \in {"get", "destroy", "dispose"} =>
        \A c \in ContIds \ {obs'.c}, k \in Keys :
          LET id == Local(c, k) IN
          id # 0 =>
            /\ Resolved(deps', id) = Resolved(deps, id)
            /\ \A e \in Cells(id) :
                 /\ deps'[e].value = deps[e].value
                 /\ HookCount(hooks', deps[e].value)
                      = HookCount(hooks, deps[e].value) ]_vars

\* Two containers were built from the same collection; get(K) on one of
\* them invoked K's factory and the other now holds the instance too.
C24_Witness ==
  /\ obs.op = "get" /\ obs.ok
  /\ \E f \in UserFns : obs.made[f] = 1
  /\ \E c \in ContIds \ {obs.c} :
       /\ conts[c].values = conts[obs.c].values
       /\ deps[Local(c, obs.key)].value = obs.val

\* The ancestors of container c.
RECURSIVE Ancestors(_)
Ancestors(c) ==
  IF conts[c].parent = 0 THEN {}
  ELSE {conts[c].parent} \cup Ancestors(conts[c].parent)

\* C25: dispose() on a child container leaves its parent (and every other
\* ancestor) untouched: each record the parent holds keeps its resolved
\* state and its cached values, and no value cached there receives a
\* dispose() call.
C25_ChildDisposeLeavesParent ==
  [][ (obs'.op = "dispose" /\ conts[obs'.c].parent # 0) =>
        \A p \in Ancestors(obs'.c), k \in Keys :
          LET id == Local(p, k) IN
          id # 0 =>
            /\ Resolved(deps', id) = Resolved(deps, id)
            /\ deps'[id].value = deps[id].value
            /\ \A e \in Cells(id) :
                 /\ deps'[e].value = deps[e].value
                 /\ HookCount(hooks', deps[e].value)
                      = HookCount(hooks, deps[e].value) ]_vars

\* A child that had resolved a key of its own and obtained another from its
\* parent was disposed: its own key was cleared, and the parent still holds
\* the instance, on which dispose() was never called.
C25_Witness ==
  /\ obs.op = "dispose" /\ conts[obs.c].parent # 0
  /\ \E k \in Keys : IsWiped(seen[obs.c][k])
  /\ \E k \in Keys :
       LET id == Local(conts[obs.c].parent, k) IN
       /\ id # 0 /\ Local(obs.c, k) = 0
       /\ HasDispose(deps[id].value)
       /\ HookCount(hooks, deps[id].value) = 0

(***************************************************************************)
(* SpecPlace: auto-wiring of classes with two marked parameters, recorded  *)
(* in either order, and of a class whose parameter 1 alone is marked; one  *)
(* of the configurations makes the factory of key a throw.                 *)
(***************************************************************************)
PlaceConfigurations ==
  { << RegisterCall("a", FnInput("F3")), RegisterCall("b", FnInput("F1")) >>,
    << RegisterCall("a", ValueInput("v1")), RegisterCall("b", ValueInput("v2")) >>,
    << RegisterCall("b", FnInput("F2")) >>,
    << RegisterCall("a", FnInput("F1")), RegisterCall("b", ValueInput("v2")) >> }

InitPlace == \E body \in PlaceConfigurations :
               InitHeap(ConfigureServices(EmptyCollection, body))

NextPlace ==
  \/ conts = << >> /\ BuildContainer("X")
  \/ \E c \in ContIds, key \in Keys : Get(c, key)
  \/ \E c \in ContIds, cls \in WiredClasses \cup GapClasses : Resolve(c, cls)
  \/ \E c \in ContIds : Dispose(c)

SpecPlace == InitPlace /\ [][NextPlace]_vars

\* The argument a constructor call with the list args binds to parameter i.
Arg(args, i) == IF i + 1 <= Len(args) THEN args[i + 1] ELSE Undef

\* The markers of a class, as a set.
Markers(cls) == {Metadata(cls)[i] : i \in 1..Len(Metadata(cls))}

\* C26: resolve(C) binds to every marked parameter of C the value of
\* get(key) for the key of its marker, and no value to an unmarked
\* parameter below the highest marked one; and it resolves the keys in
\* ascending parameter order: when the factory of a key throws, the
\* factories of the keys of higher parameters were not invoked.
C26_PlacedByIndex ==
  /\ (obs.op = "resolve" /\ obs.ok) =>
       /\ \A m \in Markers(obs.key) :
            Arg(obs.val.args, m.parameterIndex)
              = WouldGet(obs.c, m.dependencyKey).val
       /\ \A i \in 0..1 :
            (\A m \in Markers(obs.key) : m.parameterIndex # i) =>
              Arg(obs.val.args, i) = Undef
  /\ (obs.op = "resolve" /\ ~obs.ok /\ obs.val.id = "thrown") =>
       \A m, n \in Markers(obs.key) :
         LET dm == deps[Local(obs.c, m.dependencyKey)]
             dn == deps[Local(obs.c, n.dependencyKey)]
         IN  (/\ m.parameterIndex < n.parameterIndex
              /\ dm.factory = UserFactory(obs.val.key)
              /\ dn.factory.k = "fn")
             => obs.made[dn.factory.id] = 0

\* resolve ran on the class whose parameter 1 alone is marked: the
\* constructor received the value of key b as its only argument, that is,
\* at parameter 0.
C26_Witness ==
  /\ obs.op = "resolve" /\ obs.ok /\ obs.key = "WiredGap"
  /\ obs.val.args = << WouldGet(obs.c, "b").val >>

\* resolve ran on a class whose markers were recorded in ascending order,
\* with a throwing factory under key a: the factory of key b, the higher
\* parameter, was invoked before the failure.
C26_WitnessOrder ==
  /\ obs.op = "resolve" /\ ~obs.ok /\ obs.val = UserError("F3")
  /\ obs.key = "WiredAsc"
  /\ obs.made["F1"] = 1

(***************************************************************************)
(* SpecMixed: register, use, add and addDependency on collection X, in any *)
(* order, so that a key may hold a single record when add is called.       *)
(***************************************************************************)
NextMixed ==
  \/ \E key \in Keys, in \in {ValueInput("v1"), FnInput("F1")} :
       Len(deps) < MaxRecords /\ Register("X", key, in)
  \/ \E key \in Keys : Len(deps) < MaxRecords /\ Use("X", key, "PolicyA")
  \/ \E key \in Keys, cls \in Classes :
       Len(deps) < MaxRecords /\ Add("X", key, cls)
  \/ \E key \in Keys, in \in {ValueInput("v2"), FnInput("F2")} :
       Len(deps) < MaxRecords /\ AddDependency("X", key, in)

SpecMixed == InitColl /\ [][NextMixed]_vars

\* The entries of the record collection col holds under key k in the
\* heap (ds, as, ms); << >> when it holds none or a single record.
EntriesOf(ds, as, ms, col, k) ==
  LET id == ms[colls[col]][k] IN
  IF id # 0 /\ ds[id].type = "arr" THEN as[ds[id].values] ELSE << >>

\* What C27 asks of a step add(K, ..) / addDependency(K, ..): the call
\* returns normally, K then holds a multi-binding record, the same one as
\* before when K held one, whose entries are those of before, unchanged and
\* in order, followed by one new record.
AppendsOne ==
  LET col == obs'.col
      k   == obs'.key
      old == maps[colls[col]][k]
      new == maps'[colls[col]][k]
      was == EntriesOf(deps, arrays, maps, col, k)
      now == EntriesOf(deps', arrays', maps', col, k)
  IN  /\ obs'.ok
      /\ new # 0 /\ deps'[new].type = "arr"
      /\ (old # 0 /\ deps[old].type = "arr") => new = old
      /\ now = Append(was, Len(deps'))
      /\ Len(deps') > Len(deps)
      /\ \A i \in 1..Len(deps) : i # old => deps'[i] = deps[i]

\* C27: in every state of the collection, add and addDependency append
\* exactly one entry to K's multi-binding record, also when K holds a
\* single record made by register or use.
C27_AddAppends ==
  [][ obs'.op \in {"add", "addDependency"} => AppendsOne ]_vars

\* The part of C27 that the code keeps: K is absent or holds a
\* multi-binding record.
C27_AddAppendsToList ==
  [][ (/\ obs'.op \in {"add", "addDependency"}
       /\ \/ maps[colls[obs'.col]][obs'.key] = 0
          \/ deps[maps[colls[obs'.col]][obs'.key]].type = "arr")
      => AppendsOne ]_vars

\* add was called on a key holding a single record: the call failed and
\* the key still holds the single record.
C27_Witness ==
  /\ obs.op = "add" /\ ~obs.ok
  /\ deps[maps[colls[obs.col]][obs.key]].type = "cfg"

(***************************************************************************)
(* SpecRegistry: registries are brought into collection X, which already   *)
(* holds records, by importRegistry and by include.                        *)
(***************************************************************************)
RegistryInits == BodiesX \cup { << RegisterCall("b", ValueInput("v1")) >> }

InitRegistry == \E body \in RegistryInits :
                  InitHeap(ConfigureServices(EmptyCollection, body))

NextRegistry ==
  \/ \E body \in Registries :
       Len(deps) < MaxRecords /\ ImportRegistry("X", body)
  \/ \E body \in Registries :
       Len(deps) < MaxRecords /\ Include("X", body)
  \/ conts = << >> /\ BuildContainer("X")
  \/ \E c \in ContIds, key \in Keys : Get(c, key)

SpecRegistry == InitRegistry /\ [][NextRegistry]_vars

\* The content of record id in the heap (ds, as): its key, factory and
\* value, and for a multi-binding record the content of its entries.
ShapeOf(ds, as, id) ==
  IF id = 0 THEN None
  ELSE IF ds[id].type = "cfg"
    THEN [key |-> ds[id].key, factory |-> ds[id].factory, value |-> ds[id].value]
    ELSE [key |-> ds[id].key, resolved |-> ds[id].resolved,
          entries |-> [i \in 1..Len(as[ds[id].values]) |->
             LET e == ds[as[ds[id].values][i]] IN
             [key |-> e.key, factory |-> e.factory, value |-> e.value]]]

\* The outcome of col.include(registry) in the current state, for a
\* registry whose callback is body.
Included(col, body) ==
  LET cs == ConfigureServices(
              [m |-> EmptyMap, deps |-> deps, arrays |-> arrays, ok |-> TRUE],
              body)
  IN  [ok |-> cs.ok, deps |-> cs.deps, arrays |-> cs.arrays,
       m |-> IF cs.ok THEN ImportValues(maps[colls[col]], cs.m)
             ELSE maps[colls[col]]]

\* importRegistry left the collection as include would have.
SameAsInclude ==
  LET inc == Included(obs'.col, obs'.val.body) IN
  /\ obs'.ok = inc.ok
  /\ \A k \in Keys :
       ShapeOf(deps', arrays', maps'[colls'[obs'.col]][k])
         = ShapeOf(inc.deps, inc.arrays, inc.m[k])

\* C28: importRegistry(R) returns as include(new R()) would and leaves under
\* every key of the collection a record with the content include(new R())
\* would leave there.
C28_ImportRegistryAsInclude ==
  [][ obs'.op = "importRegistry" => SameAsInclude ]_vars

\* The part of C28 that the code keeps: registries whose callback calls add
\* or addDependency only under keys the collection does not hold.
C28_SameWhenKeysAreNew ==
  [][ (/\ obs'.op = "importRegistry"
       /\ \A i \in 1..Len(obs'.val.body) :
            obs'.val.body[i].op \in {"add", "addDependency"} =>
              maps[colls[obs'.col]][obs'.val.body[i].key] = 0)
      => SameAsInclude ]_vars

\* importRegistry ran a registry that adds under a key for which the
\* collection held a list of one entry: the list now has two entries.
C28_Witness ==
  /\ obs.op = "importRegistry" /\ obs.ok
  /\ \E k \in Keys :
       /\ CallsUnder(obs.val.body, k) # << >>
       /\ Len(CallsUnder(obs.val.body, k)) = 1
       /\ Len(EntriesOf(deps, arrays, maps, obs.col, k)) = 2

(***************************************************************************)
(* SpecFork: a chain of containers, each forked from the one before, with  *)
(* keys resolved in between.                                               *)
(***************************************************************************)
MaxChain == 3

ForkConfigurations ==
  { << RegisterCall("a", FnInput("F1")), RegisterCall("b", FnInput("F2")) >>,
    << AddCall("a", "PolicyA"), RegisterCall("b", FnInput("F1")) >>,
    << RegisterCall("a", ValueInput("v1")), RegisterCall("b", FnInput("F1")) >> }

InitFork ==
  \E body \in ForkConfigurations :
    LET x == ConfigureServices(EmptyCollection, body) IN
    /\ deps = x.deps
    /\ arrays = x.arrays
    /\ maps = << x.m, EmptyMap >>
    /\ colls = [col \in Collections |-> IF col = "X" THEN 1 ELSE 2]
    /\ conts = << >>
    /\ calls = NoCalls
    /\ hooks = [o \in {} |-> 0]
    /\ seen = [c \in 1..MaxChain |-> [k \in AllKeys |-> None]]
    /\ added = [col \in Collections |-> [k \in AllKeys |-> << >>]]
    /\ obs = Obs("init", 0, "", "", TRUE, Undef)
    /\ activated = << >>
    /\ contexts = << >>
    /\ stacks = << >>

NextFork ==
  \/ conts = << >> /\ BuildContainer("X")
  \/ \E c \in ContIds, key \in Keys : Get(c, key)
  \/ \E c \in ContIds : c = Len(conts) /\ Len(conts) < MaxChain /\ Fork(c)

SpecFork == InitFork /\ [][NextFork]_vars

Disposed(c) ==
  LET m == maps[conts[c].values] IN
  DestroyEach([deps |-> deps, hooks |-> hooks], m, ResolvedKeys(deps, m))

\* C30: disposal is idempotent. In a state a dispose() of container c has
\* just produced, and in a state where c holds no resolved record, a
\* dispose() of c returns normally, leaves every record as it is and
\* invokes no dispose hook.
C30_DisposeIdempotent ==
  \A c \in ContIds :
    (\/ obs.op = "dispose" /\ obs.c = c
     \/ ResolvedKeys(deps, maps[conts[c].values]) = {})
      => /\ Disposed(c).deps = deps
         /\ Disposed(c).hooks = hooks
         /\ ENABLED Dispose(c)

\* A dispose() has just invoked the hook of a cached value, and a record of
\* the container still answers isResolved() with true.
C30_Witness ==
  /\ obs.op = "dispose"
  /\ \E o \in DOMAIN hooks : hooks[o] > 0
  /\ ResolvedKeys(deps, maps[conts[obs.c].values]) # {}

\* A container that holds records, none of them resolved, and was never
\* disposed.
C30_WitnessUnresolved ==
  /\ obs.op = "buildContainer"
  /\ \E k \in Keys : Local(1, k) # 0
  /\ ResolvedKeys(deps, maps[conts[1].values]) = {}

(***************************************************************************)
(* SpecVoid: collection X holds a record whose factory returns undefined.  *)
(***************************************************************************)
VoidConfigurations ==
  { << RegisterCall("a", FnInput("F4")), RegisterCall("b", FnInput("F1")) >>,
    << RegisterCall("a", FnInput("F4")), UseCall("b", "PolicyA") >>,
    << AddDependencyCall("a", FnInput("F4")), AddDependencyCall("a", FnInput("F2")) >>,
    << RegisterCall("a", FnInput("F2")), RegisterCall("b", FnInput("F4")) >> }

InitVoid == \E body \in VoidConfigurations :
              InitHeap(ConfigureServices(EmptyCollection, body))

NextVoid ==
  \/ conts = << >> /\ BuildContainer("X")
  \/ \E c \in ContIds, key \in Keys : Get(c, key)
  \/ \E c \in ContIds : CreateChildContainer(c)
  \/ \E c \in ContIds : Dispose(c)

SpecVoid == InitVoid /\ [][NextVoid]_vars

\* The single records made from a function or a class: those of the hashes
\* and the entries of the multi-binding records.
FactoryRecords ==
  {i \in 1..Len(deps) : deps[i].type = "cfg" /\ deps[i].factory.k # "const"}

\* C31: a factory-backed single record answers isResolved() with true
\* exactly when its resolveValue has completed since the record was made or
\* its value was last cleared, and in that span its factory was invoked at
\* most once; whatever the factory returns, undefined included.
C31_CachedIffResolved ==
  \A i \in FactoryRecords :
    /\ IsResolved(deps[i]) <=> deps[i].runs >= 1
    /\ deps[i].runs <= 1

\* The part of C31 that the code keeps: the records whose factory returns
\* a value other than undefined.
C31_CachedIffResolvedValued ==
  \A i \in FactoryRecords :
    deps[i].factory.id \notin VoidFns =>
      /\ IsResolved(deps[i]) <=> deps[i].runs >= 1
      /\ deps[i].runs <= 1

\* get(K) returned undefined for the second time in a row: the factory of
\* K's record ran both times, and the record is still unresolved.
C31_Witness ==
  /\ obs.op = "get" /\ obs.ok /\ obs.val = Undef
  /\ Local(obs.c, obs.key) # 0
  /\ LET d == deps[Local(obs.c, obs.key)] IN
     /\ d.type = "cfg" /\ d.factory.id \in VoidFns
     /\ d.runs = 2 /\ ~IsResolved(d)
     /\ obs.made[d.factory.id] = 1

(***************************************************************************)
(* SpecReentrant: the factory of key a calls get("b") on the container     *)
(* that is resolving a.                                                    *)
(***************************************************************************)
ReentrantConfigurations ==
  { << UseCall("a", "WiredGap"), RegisterCall("b", FnInput("F1")) >>,
    << RegisterCall("a", FnInput("F5")), RegisterCall("b", FnInput("F2")) >>,
    << RegisterCall("a", FnInput("F5")), AddCall("b", "PolicyA") >>,
    << RegisterCall("a", FnInput("F5")), RegisterCall("b", ValueInput("v1")) >> }

InitReentrant == \E body \in ReentrantConfigurations :
                   InitHeap(ConfigureServices(EmptyCollection, body))

NextReentrant ==
  \/ conts = << >> /\ BuildContainer("X")
  \/ \E c \in ContIds, key \in Keys : Get(c, key)
  \/ \E c \in ContIds : CreateChildContainer(c)

SpecReentrant == InitReentrant /\ [][NextReentrant]_vars

\* The record of container c, or of its nearest ancestor, that answers key.
HolderOf(ms, cs, c, key) == 
  LET RECURSIVE Up(_)
      Up(x) == IF ms[cs[x].values][key] # 0 THEN ms[cs[x].values][key]
               ELSE IF cs[x].parent = 0 THEN 0 ELSE Up(cs[x].parent)
  IN  Up(c)

\* C32: a get(a) on the container that holds a's unresolved record, whose
\* factory calls get("b") on that container, returns normally; a's factory
\* was invoked once, the factory of b's record (of each of its entries,
\* for a multi-binding record) once if it held no value and not at all
\* otherwise, and no other factory; a's record caches the value returned
\* and b's record is resolved; and the value of b that a's factory
\* received is the one a get("b") on that container returns afterwards,
\* without invoking anything and without changing a record.
C32_ReentrantResolution ==
  [][ (/\ obs'.op = "get" /\ obs'.key = "a"
       /\ Local(obs'.c, "a") # 0
       /\ ~Resolved(deps, Local(obs'.c, "a"))) =>
        LET c   == obs'.c
            ka  == Local(c, "a")
            kb  == HolderOf(maps, conts, c, "b")
            st2 == [deps |-> deps', calls |-> calls', arrays |-> arrays',
                    maps |-> maps', conts |-> conts']
            r   == GetService(st2, conts'[c], "b", MaxDepth)
        IN  /\ obs'.ok
            /\ kb # 0
            /\ \A i \in 1..Len(deps) :
                 deps'[i].total - deps[i].total =
                   IF \/ i = ka
                      \/ /\ i \in Cells(kb)
                         /\ deps[i].value = Undef
                         /\ deps[i].factory.k # "const"
                     THEN 1 ELSE 0
            /\ deps'[ka].value = obs'.val
            /\ Resolved(deps', kb)
            /\ r.ok /\ r.st = st2
            /\ obs'.val.args = << r.val >> ]_vars

\* get("a") ran on a container that held a and b unresolved: both
\* factories ran once, inside one another.
C32_Witness ==
  /\ obs.op = "get" /\ obs.key = "a" /\ obs.ok
  /\ Local(obs.c, "a") # 0 /\ Local(obs.c, "b") # 0
  /\ deps[Local(obs.c, "a")].factory.id \in CallingFns
  /\ obs.made["F5"] = 1 /\ obs.made["F2"] = 1
  /\ deps[Local(obs.c, "a")].runs = 1 /\ deps[Local(obs.c, "b")].runs = 1
  /\ obs.val.args = << deps[Local(obs.c, "b")].value >>

(***************************************************************************)
(* SpecDestroy: destroy(key) on the container built from X and on the      *)
(* containers forked from it; X holds truthy and falsy values, factories   *)
(* and a multi-binding record.                                             *)
(***************************************************************************)
NextDestroy ==
  \/ conts = << >> /\ BuildContainer("X")
  \/ \E c \in ContIds, key \in Keys : Get(c, key)
  \/ \E c \in ContIds : CreateChildContainer(c)
  \/ \E c \in ContIds, key \in Keys : Destroy(c, key)

SpecDestroy == InitDispose /\ [][NextDestroy]_vars

\* C33: destroy(K) on container c returns normally and changes no record
\* other than the one c itself holds under K.  When that record was
\* resolved, it is unresolved afterwards (so that the next get(K) runs its
\* factory), and the hook of the value it cached, if the value exposes
\* one, was invoked once and no other hook; otherwise no hook was invoked.
\* When c holds no record under K, nothing changes at all.
C33_DestroyScoped ==
  [][ obs'.op = "destroy" =>
        LET id == Local(obs'.c, obs'.key) IN
        /\ obs'.ok
        /\ \A i \in 1..Len(deps) : i # id => deps'[i] = deps[i]
        /\ Len(deps') = Len(deps) /\ arrays' = arrays /\ maps' = maps
        /\ (id # 0 /\ Resolved(deps, id)) =>
             /\ ~Resolved(deps', id)
             /\ hooks' = IF HasDispose(deps[id].value)
                           THEN Bump(hooks, deps[id].value) ELSE hooks
        /\ id = 0 => deps' = deps /\ hooks' = hooks ]_vars

\* The part of C33 that the code keeps: single records whose cached value
\* is truthy, and keys the container does not hold.
C33_DestroyScopedTruthy ==
  [][ obs'.op = "destroy" =>
        LET id == Local(obs'.c, obs'.key) IN
        /\ obs'.ok
        /\ \A i \in 1..Len(deps) : i # id => deps'[i] = deps[i]
        /\ Len(deps') = Len(deps) /\ arrays' = arrays /\ maps' = maps
        /\ (id # 0 /\ deps[id].type = "cfg" /\ Truthy(deps[id].value)) =>
             /\ ~Resolved(deps', id)
             /\ NeedsFactory(deps'[id])
             /\ hooks' = IF HasDispose(deps[id].value)
                           THEN Bump(hooks, deps[id].value) ELSE hooks
        /\ id = 0 => deps' = deps /\ hooks' = hooks ]_vars

\* destroy(K) ran on a container whose record of K caches the value 0: the
\* record still holds it and is still resolved.
C33_Witness ==
  /\ obs.op = "destroy"
  /\ Local(obs.c, obs.key) # 0
  /\ deps[Local(obs.c, obs.key)].value = Const("zero")
  /\ IsResolved(deps[Local(obs.c, obs.key)])

\* destroy(K) ran on a child for a key only its parent holds, resolved:
\* the parent's record still caches its value.
C33_WitnessParent ==
  /\ obs.op = "destroy"
  /\ Local(obs.c, obs.key) = 0
  /\ conts[obs.c].parent # 0
  /\ Local(conts[obs.c].parent, obs.key) # 0
  /\ HasDispose(deps[Local(conts[obs.c].parent, obs.key)].value)

\* destroy(K) has just cleared a value that exposes dispose().
C33_WitnessCleared ==
  /\ obs.op = "destroy"
  /\ Local(obs.c, obs.key) # 0
  /\ deps[Local(obs.c, obs.key)].value = Undef
  /\ deps[Local(obs.c, obs.key)].total >= 1
  /\ \E o \in DOMAIN hooks : hooks[o] = 1

(***************************************************************************)
(* SpecResolve: ServiceCollection.resolve(key) on collection X, before and *)
(* after a container is built from X.                                      *)
(***************************************************************************)
\* resolve(key): const container = this.buildContainer();
\* try { return container.get(key) } finally { container.dispose() }
ResolveKey(col, key) ==
  LET m  == maps[colls[col]]
      r  == GetService(Heap, ServiceContainer(colls[col], 0), key, MaxDepth)
      ds == DestroyEach([deps |-> r.st.deps, hooks |-> hooks], m,
                        ResolvedKeys(r.st.deps, m))
  IN  /\ CallCount(r.st.calls, DOMAIN calls) <= MaxCalls
      /\ deps' = ds.deps
      /\ hooks' = ds.hooks
      /\ calls' = r.st.calls
      /\ seen' = [c \in DOMAIN seen |-> [k \in AllKeys |-> None]]
      /\ obs' = [Obs("resolveKey", 0, col, key, r.ok, r.val) EXCEPT
                   !.made = [f \in DOMAIN calls |-> r.st.calls[f] - calls[f]]]
      /\ UNCHANGED <<arrays, maps, colls, conts, added, activated, contexts, stacks>>

ResolveConfigurations ==
  { << RegisterCall("a", FnInput("F1")), RegisterCall("b", ValueInput("v1")) >>,
    << RegisterCall("a", FnInput("F1")), RegisterCall("b", ValueInput("zero")) >>,
    << AddCall("a", "PolicyA"), AddDependencyCall("a", FnInput("F1")),
       RegisterCall("b", FnInput("F2")) >>,
    << RegisterCall("a", FnInput("F3")), RegisterCall("b", ValueInput("v1")) >> }

InitResolve == \E body \in ResolveConfigurations :
                 InitHeap(ConfigureServices(EmptyCollection, body))

NextResolve ==
  \/ \E key \in Keys : ResolveKey("X", key)
  \/ conts = << >> /\ BuildContainer("X")
  \/ \E c \in ContIds, key \in Keys : Get(c, key)

SpecResolve == InitResolve /\ [][NextResolve]_vars

\* C34: when resolve(K) on a collection ends, normally or with the error
\* of the resolution: the value returned, if it exposes dispose(), had it
\* invoked once by this call; the record of K in the collection is
\* unresolved; and every record of the collection that was resolved when
\* the call began is unresolved too, the hook of the value it cached
\* invoked once.
C34_ResolveDisposes ==
  [][ obs'.op = "resolveKey" =>
        LET m == maps[colls[obs'.col]] IN
        /\ (obs'.ok /\ HasDispose(obs'.val)) =>
             HookCount(hooks', obs'.val) = HookCount(hooks, obs'.val) + 1
        /\ m[obs'.key] # 0 => ~Resolved(deps', m[obs'.key])
        /\ \A k \in Keys :
             (m[k] # 0 /\ Resolved(deps, m[k])) =>
               /\ ~Resolved(deps', m[k])
               /\ HasDispose(deps[m[k]].value) =>
                    HookCount(hooks', deps[m[k]].value)
                      = HookCount(hooks, deps[m[k]].value) + 1 ]_vars

\* The part of C34 that the code keeps: the value returned, and the single
\* records whose cached value is truthy.
C34_ResolveDisposesTruthy ==
  [][ obs'.op = "resolveKey" =>
        LET m == maps[colls[obs'.col]] IN
        /\ (obs'.ok /\ HasDispose(obs'.val)) =>
             HookCount(hooks', obs'.val) = HookCount(hooks, obs'.val) + 1
        /\ (m[obs'.key] # 0 /\ deps[m[obs'.key]].type = "cfg"
            /\ (obs'.ok => Truthy(obs'.val))) =>
             ~Resolved(deps', m[obs'.key])
        /\ \A k \in Keys :
             (m[k] # 0 /\ deps[m[k]].type = "cfg" /\ Truthy(deps[m[k]].value)) =>
               /\ ~Resolved(deps', m[k])
               /\ HasDispose(deps[m[k]].value) =>
                    HookCount(hooks', deps[m[k]].value)
                      = HookCount(hooks, deps[m[k]].value) + 1 ]_vars

\* resolve("a") returned an instance whose dispose() has run, while the
\* record of b still caches the constant 0.
C34_Witness ==
  /\ obs.op = "resolveKey" /\ obs.ok /\ obs.key = "a"
  /\ HasDispose(obs.val) /\ HookCount(hooks, obs.val) = 1
  /\ deps[maps[colls["X"]]["a"]].value = Undef
  /\ deps[maps[colls["X"]]["b"]].value = Const("zero")

\* resolve("a") failed with the error of a's factory, and the constant
\* registered under b has been cleared.
C34_WitnessFailure ==
  /\ obs.op = "resolveKey" /\ ~obs.ok /\ obs.val = UserError("F3")
  /\ deps[maps[colls["X"]]["b"]].factory = ConstFactory("v1")
  /\ deps[maps[colls["X"]]["b"]].value = Undef

(***************************************************************************)
(* ServiceContainerStack over Stack<T>.  A stack object is                 *)
(* [storage, log]: the `storage` array of its Stack (container             *)
(* references, the last element on top) and, as history, the calls it      *)
(* received since it was made, the push of the constructor first.          *)
(***************************************************************************)
MaxOps == 4

\* Stack.push: this.storage.push(item)
StackPush(storage, item) == Append(storage, item)

\* Stack.pop: this.storage.pop(); an empty array stays empty
StackPop(storage) ==
  IF storage = << >> THEN << >> ELSE SubSeq(storage, 1, Len(storage) - 1)

\* Stack.size
StackSize(storage) == Len(storage)

\* A variant of Stack.peek that reads the bottom of the array.
StackPeekBottom(storage) ==
  IF StackSize(storage) = 0 THEN Undef
  ELSE [t |-> "container", id |-> storage[1]]

\* Stack.peek: this.storage[this.size() - 1], undefined when out of range
StackPeek(storage) ==
  IF StackSize(storage) = 0 THEN Undef
  ELSE [t |-> "container", id |-> storage[StackSize(storage)]]

\* new Error('No container found')
NoContainer == [t |-> "error", id |-> "No container found", key |-> ""]

\* ServiceContainerStack.current on a stack with the given storage
CurrentOf(storage) ==
  LET container == StackPeek(storage) IN
  IF container = Undef THEN [ok |-> FALSE, val |-> NoContainer]
  ELSE [ok |-> TRUE, val |-> container]

Pushed(c) == [op |-> "push", c |-> c]
Popped    == [op |-> "pop", c |-> 0]

\* new ServiceContainerStack(root)
NewServiceContainerStack(root) ==
  /\ stacks' = Append(stacks, [storage |-> StackPush(<< >>, root),
                               log |-> << Pushed(root) >>])
  /\ obs' = Obs("newStack", root, "", "", TRUE, Undef)
  /\ UNCHANGED <<deps, arrays, maps, colls, conts, calls, hooks, seen, added,
                 activated, contexts>>

\* push(container)
Push(s, c) ==
  /\ Len(stacks[s].log) <= MaxOps
  /\ stacks' = [stacks EXCEPT ![s].storage = StackPush(@, c),
                              ![s].log = Append(@, Pushed(c))]
  /\ obs' = Obs("push", c, "", "", TRUE, Undef)
  /\ UNCHANGED <<deps, arrays, maps, colls, conts, calls, hooks, seen, added,
                 activated, contexts>>

\* pop()
Pop(s) ==
  /\ Len(stacks[s].log) <= MaxOps
  /\ stacks' = [stacks EXCEPT ![s].storage = StackPop(@),
                              ![s].log = Append(@, Popped)]
  /\ obs' = Obs("pop", 0, "", "", TRUE, Undef)
  /\ UNCHANGED <<deps, arrays, maps, colls, conts, calls, hooks, seen, added,
                 activated, contexts>>

\* current()
Current(s) ==
  LET r == CurrentOf(stacks[s].storage) IN
  /\ obs' = Obs("current", 0, "", "", r.ok, r.val)
  /\ UNCHANGED <<deps, arrays, maps, colls, conts, calls, hooks, seen, added,
                 activated, contexts, stacks>>

(***************************************************************************)
(* SpecStack: one stack over the container built from X and the            *)
(* containers forked from it.                                              *)
(***************************************************************************)
InitStack ==
  InitHeap(ConfigureServices(EmptyCollection,
                             << RegisterCall("a", FnInput("F1")) >>))

NextStack ==
  \/ conts = << >> /\ BuildContainer("X")
  \/ \E c \in ContIds : CreateChildContainer(c)
  \/ \E c \in ContIds : stacks = << >> /\ NewServiceContainerStack(c)
  \/ \E s \in 1..Len(stacks), c \in ContIds : Push(s, c)
  \/ \E s \in 1..Len(stacks) : Pop(s)
  \/ \E s \in 1..Len(stacks) : Current(s)

SpecStack == InitStack /\ [][NextStack]_vars

\* The number of calls `op` among log[i..j].
RECURSIVE CountOps(_, _, _, _)
CountOps(log, op, i, j) ==
  IF i > j THEN 0
  ELSE (IF log[i].op = op THEN 1 ELSE 0) + CountOps(log, op, i + 1, j)

\* The pushes of a log that no later pop has removed: push i is removed by
\* the first pop after which the pops since i outnumber the pushes since i.
Live(log) ==
  {i \in 1..Len(log) :
     /\ log[i].op = "push"
     /\ \A j \in (i + 1)..Len(log) :
          CountOps(log, "pop", i + 1, j) <= CountOps(log, "push", i + 1, j)}

\* Every pop of the log found something to remove, and the pops are as
\* many as the pushes after the constructor's.
Balanced(log) ==
  /\ \A j \in 2..Len(log) :
       CountOps(log, "pop", 2, j) <= CountOps(log, "push", 2, j)
  /\ CountOps(log, "pop", 2, Len(log)) = CountOps(log, "push", 2, Len(log))

Latest(S) == CHOOSE i \in S : \A j \in S : j <= i

\* C35: after any sequence of push and pop on a ServiceContainerStack,
\* current() returns the container of the latest push that no pop has
\* removed (the constructor's push of the root included), which is the
\* root when the pushes and pops since construction are balanced; it
\* throws 'No container found' exactly when every push has been removed,
\* which is when the storage is empty; and a pop on the empty stack leaves
\* it empty.
C35_LastInFirstOut ==
  \A s \in 1..Len(stacks) :
    LET log  == stacks[s].log
        r    == CurrentOf(stacks[s].storage)
    IN  /\ r.ok <=> Live(log) # {}
        /\ r.ok => r.val = [t |-> "container", id |-> log[Latest(Live(log))].c]
        /\ ~r.ok <=> stacks[s].storage = << >>
        /\ ~r.ok => r.val = NoContainer
        /\ Balanced(log) => r.ok /\ r.val.id = log[1].c
        /\ stacks[s].storage = << >> => StackPop(stacks[s].storage) = << >>
        /\ (obs.op = "current") => (obs.ok = r.ok /\ obs.val = r.val)

\* current() returned the root again after a container other than the
\* root was pushed onto two others and the three were popped.
C35_Witness ==
  /\ obs.op = "current" /\ obs.ok
  /\ Len(stacks) = 1
  /\ Len(stacks[1].log) = 5
  /\ Balanced(stacks[1].log)
  /\ stacks[1].log[2].op = "push" /\ stacks[1].log[3].op = "push"
  /\ stacks[1].log[3].c # stacks[1].log[1].c
  /\ obs.val.id = stacks[1].log[1].c

\* current() threw after the root was popped, a pop ran on the empty stack
\* and nothing was pushed since.
C35_WitnessEmpty ==
  /\ obs.op = "current" /\ ~obs.ok /\ obs.val = NoContainer
  /\ Len(stacks) = 1
  /\ stacks[1].log = << stacks[1].log[1], Popped, Popped >>

\* current() returned a container pushed after the root had been popped.
C35_WitnessAfterEmpty ==
  /\ obs.op = "current" /\ obs.ok
  /\ Len(stacks) = 1
  /\ Len(stacks[1].log) = 4
  /\ stacks[1].log[2] = Popped /\ stacks[1].log[3] = Popped
  /\ stacks[1].log[4].op = "push"
  /\ obs.val.id = stacks[1].log[4].c

====
